---------------------------- MODULE Spec2Model ----------------------------
(***************************************************************************)
(* A model of arcsilib's abstract sensor (src/arcsilib/arcsisensor.py) and *)
(* its Landsat 1 MSS variant (src/arcsilib/arcsisensorlandsat1mss.py).     *)
(*                                                                         *)
(* Units.  Python floats are modelled as exact rationals in fixed point:   *)
(*   - elevations are whole altitude units (metres);                       *)
(*   - an altitude handed to the solver is the rational <<num, den>>;      *)
(*   - AOT values are in hundredths (0.05 is 5);                           *)
(*   - pixel values, offsets and dosOutRefl are in 1/SubPixel of a unit;   *)
(*   - a percentile is pctNum / PctDen.                                    *)
(***************************************************************************)
EXTENDS Integers, Sequences, FiniteSets

VARIABLES
    sensor,      \* SensorState fields read by the 6S solver call
    lutRun,      \* the latest LUT build: its arguments, solver calls and result
    lutPrev,     \* the build before it, kept when it had the same arguments
    dosCall,     \* the latest DOS subtraction: function, one pixel's inputs, output
    dtPc,        \* position inside calcDarkTargetOffsetsForBand
    band,        \* the pixels of the band of inputTOAImage (one row)
    histBinWidth,
    minObjSize,
    startPercentile,   \* darkPxlPercentile as the caller passed it
    darkPxlPercentile, \* darkPxlPercentile in use, in 1/PctDen
    retries,     \* how often the loop has doubled the percentile
    pxlThreshold,
    Histogram,   \* the Histogram column of tmpDarkObjsImg's attribute table
    rat,         \* the attribute table of tmpDarkObjsImg after the grid selection
    interpArgs,  \* what calcDarkTargetOffsetsForBand hands to the interpolator
    interp,      \* the latest interpolateImageFromPointData call
    aotRun,      \* the latest AOT search of estimateSingleAOTFromDOSBandImpl
    utilCall,    \* the latest call of a SensorState utility: object before, after, result
    headerRun,   \* the latest header parse of the Landsat 1 MSS sensor
    ls1,         \* the fields of the Landsat 1 MSS sensor object
    extractCall, \* the latest extractHeaderParameters call on it: header, outcome
    blockRun,    \* the latest block of findDOSLocalDarkTargets: input, written mask
    fileRun      \* the latest operation that writes image files: its steps and files

lutVars == <<sensor, lutRun, lutPrev>>
dosVars == <<dosCall>>
dtVars == <<dtPc, band, histBinWidth, minObjSize, startPercentile, darkPxlPercentile,
            retries, pxlThreshold, Histogram, rat, interpArgs>>
interpVars == <<interp>>
aotVars == <<aotRun>>
utilVars == <<utilCall>>
hdrVars == <<headerRun>>
extVars == <<ls1, extractCall>>
blockVars == <<blockRun>>
fileVars == <<fileRun>>
vars == <<sensor, lutRun, lutPrev, dosCall, dtPc, band, histBinWidth, minObjSize,
          startPercentile, darkPxlPercentile, retries, pxlThreshold, Histogram,
          rat, interpArgs, interp, aotRun, utilCall, headerRun, ls1, extractCall,
          blockRun, fileRun>>

----------------------------------------------------------------------------
(* Arithmetic helpers                                                      *)

\* math.ceil(a / b) for an integer a of either sign and b > 0
CeilDiv(a, b) == -((-a) \div b)

----------------------------------------------------------------------------
(* 6S coefficient / LUT builder                                            *)

\* bounds of the enumerated inputs
MaxElevUnits == 3
MaxAOTUnits == 2

ElevStep == 100
AOTStep == 5
MetresPerKm == 1000

\* elevations offered by callers: multiples of 50, so that ranges that are
\* and are not multiples of the step both occur, in either order
ElevVals == {50 * i : i \in 0..MaxElevUnits}
\* AOT bounds offered by callers, in hundredths: 0.05, 0.08, 0.11, ...
AOTVals == {5 + 3 * i : i \in 0..MaxAOTUnits}

SensorStates ==
    { [month |-> 6, day |-> 15, hour |-> 10, minute |-> 30, latCentre |-> 95, lonCentre |-> -695],
      [month |-> 1, day |-> 2, hour |-> 0, minute |-> 0, latCentre |-> 0, lonCentre |-> 0] }

Profiles == [aeroProfile : {"Continental"}, atmosProfile : {"Tropical"},
             grdRefl : {"GreenVegetation"}, useBRDF : {FALSE}]

\* float(elevVal)/1000: the altitude in kilometres, as a rational
AltitudeKm(elevVal) == <<elevVal, MetresPerKm>>

\* The solver is an uninterpreted pure function of everything it reads: the
\* result is the term built from the SensorState fields and the arguments.
calc6SCoefficients(self, aeroProfile, atmosProfile, grdRefl, surfaceAltitude, aotVal, useBRDF) ==
    [atmos_profile |-> atmosProfile, aero_profile |-> aeroProfile,
     ground_reflectance |-> grdRefl,
     month |-> self.month, day |-> self.day,
     gmt_decimal_hour |-> <<self.hour * 60 + self.minute, 60>>,
     latitude |-> self.latCentre, longitude |-> self.lonCentre,
     altitude |-> surfaceAltitude, brdf |-> useBRDF, aot550 |-> aotVal]

\* one solver invocation as it appears in the call log
SolverCall(surfaceAltitude, aotVal) == [altitude |-> surfaceAltitude, aot |-> aotVal]

\* the step count with the range divided by floor division
numElevSteps_floordiv(surfaceAltitudeMin, surfaceAltitudeMax) ==
    ((surfaceAltitudeMax - surfaceAltitudeMin) \div ElevStep) + 1

numElevSteps(surfaceAltitudeMin, surfaceAltitudeMax) ==
    CeilDiv(surfaceAltitudeMax - surfaceAltitudeMin, ElevStep) + 1

\* the AOT step count without the trailing extra step
numAOTSteps_exact(aotMin, aotMax) ==
    CeilDiv(aotMax - aotMin, AOTStep) + 1

numAOTSteps(aotMin, aotMax) ==
    (CeilDiv(aotMax - aotMin, AOTStep) + 1) + 1

\* the start value of the inner AOT walk of one elevation
aotLoopStart(aotMin, aotCarried) == aotMin

\* the altitude handed over without the division by 1000
solverAltitude_metres(elevVal) == <<elevVal, 1>>

\* the altitude argument of the solver call made for elevVal
solverAltitude(elevVal) == AltitudeKm(elevVal)

buildElevation6SCoeffLUT(self, p, aotVal, surfaceAltitudeMin, surfaceAltitudeMax) ==
    LET n == numElevSteps(surfaceAltitudeMin, surfaceAltitudeMax)
        RECURSIVE loop(_, _, _)
        loop(i, elevVal, acc) ==
            IF i >= n THEN acc
            ELSE LET alt == solverAltitude(elevVal)
                     coeffs == calc6SCoefficients(self, p.aeroProfile, p.atmosProfile,
                                                  p.grdRefl, alt, aotVal, p.useBRDF)
                 IN loop(i + 1, elevVal + ElevStep,
                         [lut |-> Append(acc.lut, [Elev |-> elevVal, Coeffs |-> coeffs]),
                          calls |-> Append(acc.calls, SolverCall(alt, aotVal))])
    IN loop(0, surfaceAltitudeMin, [lut |-> <<>>, calls |-> <<>>])

buildElevationAOT6SCoeffLUT(self, p, surfaceAltitudeMin, surfaceAltitudeMax, aotMin, aotMax) ==
    LET n == numElevSteps(surfaceAltitudeMin, surfaceAltitudeMax)
        m == numAOTSteps(aotMin, aotMax)
        \* the inner loop: returns the AOT entries, the calls, and the value
        \* aotVal is left with
        RECURSIVE inner(_, _, _, _)
        inner(j, elevVal, aotVal, acc) ==
            IF j >= m THEN [aotCoeffLUT |-> acc.aotCoeffLUT, calls |-> acc.calls, aotVal |-> aotVal]
            ELSE LET alt == solverAltitude(elevVal)
                     coeffs == calc6SCoefficients(self, p.aeroProfile, p.atmosProfile,
                                                  p.grdRefl, alt, aotVal, p.useBRDF)
                 IN inner(j + 1, elevVal, aotVal + AOTStep,
                          [aotCoeffLUT |-> Append(acc.aotCoeffLUT, [AOT |-> aotVal, Coeffs |-> coeffs]),
                           calls |-> Append(acc.calls, SolverCall(alt, aotVal))])
        RECURSIVE outer(_, _, _, _)
        outer(i, elevVal, aotCarried, acc) ==
            IF i >= n THEN acc
            ELSE LET r == inner(0, elevVal, aotLoopStart(aotMin, aotCarried),
                                [aotCoeffLUT |-> <<>>, calls |-> acc.calls])
                 IN outer(i + 1, elevVal + ElevStep, r.aotVal,
                          [lut |-> Append(acc.lut, [Elev |-> elevVal, Coeffs |-> r.aotCoeffLUT]),
                           calls |-> r.calls])
    IN outer(0, surfaceAltitudeMin, aotMin, [lut |-> <<>>, calls |-> <<>>])

NoRun == [kind |-> "none", profile |-> [aeroProfile |-> "", atmosProfile |-> "", grdRefl |-> "", useBRDF |-> FALSE],
          surfaceAltitudeMin |-> 0, surfaceAltitudeMax |-> 0,
          aotVal |-> 0, aotMin |-> 0, aotMax |-> 0,
          sensorBefore |-> [month |-> 0, day |-> 0, hour |-> 0, minute |-> 0, latCentre |-> 0, lonCentre |-> 0],
          sensorAfter |-> [month |-> 0, day |-> 0, hour |-> 0, minute |-> 0, latCentre |-> 0, lonCentre |-> 0],
          lut |-> <<>>, calls |-> <<>>]

\* a build that writes a SensorState field
sensorAfterBuild_writes(self) == [self EXCEPT !.latCentre = 0, !.lonCentre = 0, !.month = 1]

\* SensorState as a LUT build leaves it: the builders assign no field of self
sensorAfterBuild(self) == self

\* no DOS subtraction has run
NoDOSCall == [fn |-> "none", TOA |-> 0, Off |-> 0, dosOutRefl |-> 0, out |-> 0]

\* calcDarkTargetOffsetsForBand has not been entered
NoInterpArgs == [rows |-> <<>>, xVals |-> <<>>, zVals |-> <<>>,
                 notNegOut |-> FALSE, notNegMinVal |-> 0]
NoInterp == [fn |-> "none"]
NoAOTRun == [fn |-> "none"]
NoUtilCall == [fn |-> "none"]
NoHeaderRun == [fn |-> "none", pc |-> "closed", lines |-> <<>>, headerParams |-> <<>>]
NoExtractCall == [fn |-> "none"]
NoBlockRun == [fn |-> "none", pc |-> "closed", blocks |-> 0, block |-> <<>>, out |-> <<>>]
NoFileRun == [fn |-> "none"]

\* arcsisensor.py 115-144 and arcsisensorlandsat1mss.py 70-96: the Landsat 1
\* MSS object as its constructors leave it.  A centre coordinate is the
\* rational <<numerator, 2>>; a file is the sequence of its path components.
NewLandsat1MSS ==
    [sensor |-> "LS1MSS", row |-> 0, path |-> 0,
     acquisitionTime |-> [date |-> "today", time |-> "now"],
     solarZenith |-> 0, solarAzimuth |-> 0,
     latTL |-> 0, lonTL |-> 0, latTR |-> 0, lonTR |-> 0,
     latBL |-> 0, lonBL |-> 0, latBR |-> 0, lonBR |-> 0,
     xTL |-> 0, yTL |-> 0, xTR |-> 0, yTR |-> 0,
     xBL |-> 0, yBL |-> 0, xBR |-> 0, yBR |-> 0,
     xCentre |-> <<0, 2>>, yCentre |-> <<0, 2>>,
     latCentre |-> 0, lonCentre |-> 0,
     band4File |-> <<>>, band5File |-> <<>>, band6File |-> <<>>, band7File |-> <<>>,
     b4CalMin |-> 0, b4CalMax |-> 0, b5CalMin |-> 0, b5CalMax |-> 0,
     b6CalMin |-> 0, b6CalMax |-> 0, b7CalMin |-> 0, b7CalMax |-> 0,
     b4MinRad |-> 0, b4MaxRad |-> 0, b5MinRad |-> 0, b5MaxRad |-> 0,
     b6MinRad |-> 0, b6MaxRad |-> 0, b7MinRad |-> 0, b7MaxRad |-> 0]

DarkTargetIdle ==
    /\ dtPc = "idle"
    /\ band = <<>>
    /\ histBinWidth = 1
    /\ minObjSize = 1
    /\ startPercentile = 1
    /\ darkPxlPercentile = 1
    /\ retries = 0
    /\ pxlThreshold = 0
    /\ Histogram = <<>>
    /\ rat = <<>>
    /\ interpArgs = NoInterpArgs

\* no interpolation, AOT search, utility call or header parse has happened
OthersIdle ==
    /\ interp = NoInterp
    /\ aotRun = NoAOTRun
    /\ utilCall = NoUtilCall
    /\ headerRun = NoHeaderRun
    /\ ls1 = NewLandsat1MSS
    /\ extractCall = NoExtractCall
    /\ blockRun = NoBlockRun
    /\ fileRun = NoFileRun

InitLUT ==
    /\ sensor \in SensorStates
    /\ lutRun = NoRun
    /\ lutPrev = NoRun
    /\ dosCall = NoDOSCall
    /\ DarkTargetIdle
    /\ OthersIdle

\* two builds are runs on identical arguments and identical SensorState
SameArguments(a, b) ==
    /\ a.kind = b.kind
    /\ a.profile = b.profile
    /\ a.surfaceAltitudeMin = b.surfaceAltitudeMin
    /\ a.surfaceAltitudeMax = b.surfaceAltitudeMax
    /\ a.aotVal = b.aotVal
    /\ a.aotMin = b.aotMin
    /\ a.aotMax = b.aotMax
    /\ a.sensorBefore = b.sensorBefore

\* the run before is remembered when the new run repeats its arguments
Remember(new, old) == IF SameArguments(new, old) THEN old ELSE NoRun

CallBuildElevation6SCoeffLUT ==
    \E p \in Profiles, aotVal \in AOTVals, aMin \in ElevVals, aMax \in ElevVals :
        LET r == buildElevation6SCoeffLUT(sensor, p, aotVal, aMin, aMax)
        IN /\ sensor' = sensorAfterBuild(sensor)
           /\ lutRun' = [kind |-> "elev", profile |-> p,
                         surfaceAltitudeMin |-> aMin, surfaceAltitudeMax |-> aMax,
                         aotVal |-> aotVal, aotMin |-> 0, aotMax |-> 0,
                         sensorBefore |-> sensor, sensorAfter |-> sensor',
                         lut |-> r.lut, calls |-> r.calls]
           /\ lutPrev' = Remember(lutRun', lutRun)
           /\ UNCHANGED <<dosVars, dtVars, interpVars, aotVars, utilVars, hdrVars, extVars, blockVars, fileVars>>

CallBuildElevationAOT6SCoeffLUT ==
    \E p \in Profiles, aMin \in ElevVals, aMax \in ElevVals, aotMin \in AOTVals, aotMax \in AOTVals :
        LET r == buildElevationAOT6SCoeffLUT(sensor, p, aMin, aMax, aotMin, aotMax)
        IN /\ sensor' = sensorAfterBuild(sensor)
           /\ lutRun' = [kind |-> "elevaot", profile |-> p,
                         surfaceAltitudeMin |-> aMin, surfaceAltitudeMax |-> aMax,
                         aotVal |-> 0, aotMin |-> aotMin, aotMax |-> aotMax,
                         sensorBefore |-> sensor, sensorAfter |-> sensor',
                         lut |-> r.lut, calls |-> r.calls]
           /\ lutPrev' = Remember(lutRun', lutRun)
           /\ UNCHANGED <<dosVars, dtVars, interpVars, aotVars, utilVars, hdrVars, extVars, blockVars, fileVars>>

NextLUT ==
    \/ CallBuildElevation6SCoeffLUT
    \/ CallBuildElevationAOT6SCoeffLUT

SpecLUT == InitLUT /\ [][NextLUT]_vars

----------------------------------------------------------------------------
(* Claims about the LUT builders                                           *)

\* the least number of whole steps of `step` from lo that reach or pass hi
StepsToCover(lo, hi, step) ==
    CHOOSE n \in 0..(hi - lo) : /\ lo + step * n >= hi
                                /\ (n = 0 \/ lo + step * (n - 1) < hi)

ValidElevRange(r) == r.surfaceAltitudeMin <= r.surfaceAltitudeMax
ValidAOTRange(r) == r.aotMin <= r.aotMax

\* C1: for every elevation range with min <= max the 1D LUT has exactly
\* ceil((max-min)/100)+1 entries, its Elev values start at min and grow by
\* exactly 100 per entry, and the last Elev is >= max.
C1_ElevLUTShape ==
    (lutRun.kind = "elev" /\ ValidElevRange(lutRun)) =>
        LET lut == lutRun.lut
            n == StepsToCover(lutRun.surfaceAltitudeMin, lutRun.surfaceAltitudeMax, 100) + 1
        IN /\ Len(lut) = n
           /\ lut[1].Elev = lutRun.surfaceAltitudeMin
           /\ \A i \in 1..(Len(lut) - 1) : lut[i + 1].Elev = lut[i].Elev + 100
           /\ lut[Len(lut)].Elev >= lutRun.surfaceAltitudeMax

\* a 1D build over a range that is no multiple of the step, with overshoot
C1_Witness ==
    /\ lutRun.kind = "elev"
    /\ lutRun.surfaceAltitudeMin < lutRun.surfaceAltitudeMax
    /\ (lutRun.surfaceAltitudeMax - lutRun.surfaceAltitudeMin) % 100 # 0
    /\ Len(lutRun.lut) >= 3
    /\ lutRun.lut[Len(lutRun.lut)].Elev > lutRun.surfaceAltitudeMax

\* C2: for every valid (elevation, AOT) range the 2D LUT has as many outer
\* entries as the 1D LUT of the same elevation range, and every inner
\* sequence has exactly ceil((aotMax-aotMin)/0.05)+2 entries whose AOT values
\* start at aotMin and grow by 0.05 per entry.
C2_ElevAOTLUTShape ==
    (lutRun.kind = "elevaot" /\ ValidElevRange(lutRun) /\ ValidAOTRange(lutRun)) =>
        LET lut == lutRun.lut
            oneD == buildElevation6SCoeffLUT(lutRun.sensorBefore, lutRun.profile, lutRun.aotMin,
                                             lutRun.surfaceAltitudeMin, lutRun.surfaceAltitudeMax).lut
            m == StepsToCover(lutRun.aotMin, lutRun.aotMax, 5) + 2
        IN /\ Len(lut) = Len(oneD)
           /\ \A i \in 1..Len(lut) :
                /\ lut[i].Elev = oneD[i].Elev
                /\ Len(lut[i].Coeffs) = m
                /\ lut[i].Coeffs[1].AOT = lutRun.aotMin
                /\ \A j \in 1..(m - 1) : lut[i].Coeffs[j + 1].AOT = lut[i].Coeffs[j].AOT + 5

\* a 2D build with several elevations and an AOT range that is no multiple
\* of the AOT step
C2_Witness ==
    /\ lutRun.kind = "elevaot"
    /\ Len(lutRun.lut) >= 2
    /\ lutRun.aotMin < lutRun.aotMax
    /\ (lutRun.aotMax - lutRun.aotMin) % 5 # 0
    /\ Len(lutRun.lut[2].Coeffs) = 4

\* the solver result of the logged call c of run r
ResultOfCall(r, c) ==
    calc6SCoefficients(r.sensorBefore, r.profile.aeroProfile, r.profile.atmosProfile,
                       r.profile.grdRefl, c.altitude, c.aot, r.profile.useBRDF)

\* C3: the builders call the solver exactly once per grid point, in
\* elevation-major order, with altitude = Elev/1000 and the grid point's AOT
\* (the caller's aotVal in 1D; aotMin + 0.05*(j-1) in 2D, restarting at
\* aotMin for every elevation), and store that call's result in the entry.
C3_OneSolverCallPerGridPoint ==
    /\ lutRun.kind = "elev" =>
         /\ Len(lutRun.calls) = Len(lutRun.lut)
         /\ \A i \in 1..Len(lutRun.lut) :
              /\ lutRun.calls[i].altitude[1] = lutRun.lut[i].Elev
              /\ lutRun.calls[i].altitude[2] = 1000
              /\ lutRun.calls[i].aot = lutRun.aotVal
              /\ lutRun.lut[i].Coeffs = ResultOfCall(lutRun, lutRun.calls[i])
    /\ (lutRun.kind = "elevaot" /\ Len(lutRun.lut) > 0) =>
         LET m == Len(lutRun.lut[1].Coeffs)
         IN /\ Len(lutRun.calls) = Len(lutRun.lut) * m
            /\ \A i \in 1..Len(lutRun.lut) :
                 /\ Len(lutRun.lut[i].Coeffs) = m
                 /\ \A j \in 1..m :
                      LET c == lutRun.calls[(i - 1) * m + j]
                      IN /\ c.altitude[1] = lutRun.lut[i].Elev
                         /\ c.altitude[2] = 1000
                         /\ c.aot = lutRun.lut[i].Coeffs[j].AOT
                         /\ c.aot = lutRun.aotMin + 5 * (j - 1)
                         /\ lutRun.lut[i].Coeffs[j].Coeffs = ResultOfCall(lutRun, c)
    /\ (lutRun.kind = "elevaot" /\ Len(lutRun.lut) = 0) => Len(lutRun.calls) = 0

\* a 2D build whose call log spans several elevations and several AOT values
C3_Witness ==
    /\ lutRun.kind = "elevaot"
    /\ Len(lutRun.lut) >= 2
    /\ Len(lutRun.calls) >= 6
    /\ lutRun.surfaceAltitudeMin > 0
    /\ lutRun.calls[Len(lutRun.calls)].aot > lutRun.aotMax

----------------------------------------------------------------------------
(* DOS subtraction                                                         *)

\* bounds of the enumerated pixel inputs
SubPixel == 4
MaxTOA == 2
MaxOffset == 3
MaxDosOutRefl == 2

UInt16Max == 65535

\* the literal 1.0 of the expressions, in 1/SubPixel units
One == SubPixel

\* a TOA reflectance pixel: an unsigned 16 bit count, 0 is nodata
TOAPixels == {SubPixel * t : t \in 0..MaxTOA}
\* a pixel of the interpolated offset image: a float, never negative
\* (interpolateImageFromPointData is called with notNegOut=True, 0.0)
OffsetPixels == 0..(SubPixel * MaxOffset)
\* a band percentile of the TOA image: one of its pixel values
PercentileOffsets == {SubPixel * t : t \in 0..MaxOffset}
\* the caller's dosOutRefl
DosOutRefls == 0..(SubPixel * MaxDosOutRefl)

\* bandMath writing a float result into a TYPE_16UINT band: clamped to the
\* type's range and rounded to the nearest count
WriteUInt16(v) ==
    IF v <= 0 THEN 0
    ELSE IF v >= UInt16Max * SubPixel THEN UInt16Max
    ELSE (2 * v + SubPixel) \div (2 * SubPixel)

\* the expression without the nodata test
DOSExpression_nonodata(TOA, Off, dosOutRefl) ==
    IF ((TOA - Off) + dosOutRefl) <= 0 THEN One ELSE (TOA - Off) + dosOutRefl

\* the expression with dosOutRefl in place of the literal 1.0
DOSExpression_floor(TOA, Off, dosOutRefl) ==
    IF TOA = 0 THEN 0
    ELSE IF ((TOA - Off) + dosOutRefl) <= 0 THEN dosOutRefl
    ELSE (TOA - Off) + dosOutRefl

\* '(TOA==0)?0:((TOA-Off)+dosOutRefl)<=0?1.0:(TOA-Off)+dosOutRefl'
DOSExpression(TOA, Off, dosOutRefl) ==
    IF TOA = 0 THEN 0
    ELSE IF ((TOA - Off) + dosOutRefl) <= 0 THEN One
    ELSE (TOA - Off) + dosOutRefl

\* "(b1 == 0.0)?0.0:((b1-off) + dosOutRefl) < 0?1.0: (b1-off) + dosOutRefl"
SimpleDOSExpression(b1, off, dosOutRefl) ==
    IF b1 = 0 THEN 0
    ELSE IF ((b1 - off) + dosOutRefl) < 0 THEN One
    ELSE (b1 - off) + dosOutRefl

InitDOS ==
    /\ sensor = CHOOSE st \in SensorStates : st.month = 6
    /\ lutRun = NoRun
    /\ lutPrev = NoRun
    /\ dosCall = NoDOSCall
    /\ DarkTargetIdle
    /\ OthersIdle

PerformDOSOnSingleBand ==
    \E TOA \in TOAPixels, Off \in OffsetPixels, dosOutRefl \in DosOutRefls :
        /\ dosCall' = [fn |-> "performDOSOnSingleBand", TOA |-> TOA, Off |-> Off,
                       dosOutRefl |-> dosOutRefl,
                       out |-> WriteUInt16(DOSExpression(TOA, Off, dosOutRefl))]
        /\ UNCHANGED <<lutVars, dtVars, interpVars, aotVars, utilVars, hdrVars, extVars, blockVars, fileVars>>

PerformLocalDOSOnSingleBand ==
    \E TOA \in TOAPixels, Off \in OffsetPixels, dosOutRefl \in DosOutRefls :
        /\ dosCall' = [fn |-> "performLocalDOSOnSingleBand", TOA |-> TOA, Off |-> Off,
                       dosOutRefl |-> dosOutRefl,
                       out |-> WriteUInt16(DOSExpression(TOA, Off, dosOutRefl))]
        /\ UNCHANGED <<lutVars, dtVars, interpVars, aotVars, utilVars, hdrVars, extVars, blockVars, fileVars>>

ConvertImageBandToReflectanceSimpleDarkSubtract ==
    \E b1 \in TOAPixels, off \in PercentileOffsets, dosOutRefl \in DosOutRefls :
        /\ dosCall' = [fn |-> "convertImageBandToReflectanceSimpleDarkSubtract",
                       TOA |-> b1, Off |-> off, dosOutRefl |-> dosOutRefl,
                       out |-> WriteUInt16(SimpleDOSExpression(b1, off, dosOutRefl))]
        /\ UNCHANGED <<lutVars, dtVars, interpVars, aotVars, utilVars, hdrVars, extVars, blockVars, fileVars>>

NextDOS ==
    \/ PerformDOSOnSingleBand
    \/ PerformLocalDOSOnSingleBand
    \/ ConvertImageBandToReflectanceSimpleDarkSubtract

SpecDOS == InitDOS /\ [][NextDOS]_vars

----------------------------------------------------------------------------
(* Claims about DOS subtraction                                            *)

\* C5: a pixel whose TOA value is 0 (nodata) gets output 0 from all three DOS
\* subtractions, for every offset and every dosOutRefl.
C5_NodataPreserved ==
    (dosCall.fn # "none" /\ dosCall.TOA = 0) => dosCall.out = 0

\* a nodata pixel under a positive offset and a positive dosOutRefl
C5_Witness ==
    /\ dosCall.fn = "performLocalDOSOnSingleBand"
    /\ dosCall.TOA = 0
    /\ dosCall.Off > 0
    /\ dosCall.dosOutRefl > dosCall.Off
    /\ dosCall.out = 0

\* the pixel is valid and lies below offset - dosOutRefl
BelowFloor(c) == c.fn # "none" /\ c.TOA # 0 /\ c.TOA < c.Off - c.dosOutRefl

\* C6 as stated: a valid pixel below offset - dosOutRefl gets exactly
\* dosOutRefl as its output.
C6_FloorIsDosOutRefl ==
    BelowFloor(dosCall) => dosCall.out * SubPixel = dosCall.dosOutRefl

\* C6 as amended: a valid pixel below offset - dosOutRefl gets exactly 1 as
\* its output, whatever dosOutRefl is.
C6_FloorIsOne ==
    BelowFloor(dosCall) => dosCall.out = 1

\* a valid pixel below the floor with a dosOutRefl other than 1
C6_Witness ==
    /\ BelowFloor(dosCall)
    /\ dosCall.fn = "performDOSOnSingleBand"
    /\ dosCall.dosOutRefl > One
    /\ dosCall.out = 1

\* C7: a valid pixel (TOA # 0) never gets an output below 1, for every offset
\* and every dosOutRefl, from any of the three DOS subtractions.
C7_ValidPixelsPositive ==
    (dosCall.fn # "none" /\ dosCall.TOA # 0) => dosCall.out >= 1

----------------------------------------------------------------------------
(* Dark-target extraction: calcDarkTargetOffsetsForBand                    *)

\* bounds of the enumerated inputs
MaxObjects == 11
MaxRunLen == 2
PctDen == 16
MaxDoublings == 5

HistMin == 1
HistMax == 10000
MinTargets == 10
GridCols == 20

BrightVal == 3
\* a band with more dark runs than the selection grid has columns
CrowdedObjects == 22

\* value of the j-th dark run: 1 or 2, alternating
DarkVal(j) == 1 + (j % 2)

\* A one-row band made of n dark runs of runLen pixels, each followed by one
\* separator pixel: nodata (0) or a bright pixel.  n = 0 gives a band of two
\* separator pixels: all nodata, or all bright.
BandOf(n, runLen, sep) ==
    IF n = 0 THEN <<sep, sep>>
    ELSE [k \in 1..(n * (runLen + 1)) |->
            IF k % (runLen + 1) = 0 THEN sep ELSE DarkVal(((k - 1) \div (runLen + 1)) + 1)]

ObjectCounts == {0, 1} \cup (9..MaxObjects)
Bands ==
    {BandOf(n, runLen, sep) : n \in ObjectCounts, runLen \in 1..MaxRunLen, sep \in {0, BrightVal}}
    \cup {BandOf(CrowdedObjects, 1, 0)}
BinWidths == {1, 2}
MinObjSizes == 1..MaxRunLen
\* starting percentiles, in 1/PctDen: 1/PctDen and about a quarter
StartPercentiles == {1, PctDen \div 4}

\* rsgislib.imagecalc.getHistogram(img, band, histBinWidth, False, 1, 10000):
\* bin i counts the pixels v with HistMin + i*w <= v < HistMin + (i+1)*w
InHistRange(v) == v >= HistMin /\ v < HistMax
BinOf(v, w) == (v - HistMin) \div w
NumBins(w) == CeilDiv(HistMax - HistMin, w)

\* index of the last bin that holds a pixel, -1 when none does; every bin
\* after it is empty
LastBin(img, w) ==
    LET idx == {BinOf(img[k], w) : k \in {q \in 1..Len(img) : InHistRange(img[q])}}
    IN IF idx = {} THEN -1 ELSE CHOOSE i \in idx : \A o \in idx : o <= i

\* the leading bins of bandHist[0], up to the last one that holds a pixel
bandHist(img, w) ==
    [i \in 0..LastBin(img, w) |->
        Cardinality({k \in 1..Len(img) : InHistRange(img[k]) /\ BinOf(img[k], w) = i})]

\* numpy.sum(bandHist[0])
sumPxls(img) == Cardinality({k \in 1..Len(img) : InHistRange(img[k])})

\* the comparison with <= in place of <
BelowTarget_orEqual(pxlCount, total, percentile) ==
    pxlCount * PctDen <= total * percentile

\* pxlCount < numPxlThreshold, with numPxlThreshold = sumPxls * darkPxlPercentile
BelowTarget(pxlCount, total, percentile) ==
    pxlCount * PctDen < total * percentile

\* the threshold walk, lines 777-784.  Past the last bin that holds a pixel
\* pxlCount no longer changes, so the remaining bins all take the same branch.
ThresholdWalk(img, w, percentile) ==
    LET hist == bandHist(img, w)
        last == LastBin(img, w)
        total == sumPxls(img)
        RECURSIVE walk(_, _, _)
        walk(i, pxlCount, threshold) ==
            IF i >= NumBins(w) THEN threshold
            ELSE IF i > last
                 THEN IF BelowTarget(pxlCount, total, percentile)
                      THEN threshold + w * (NumBins(w) - i)
                      ELSE threshold
            ELSE LET c == pxlCount + hist[i]
                 IN IF BelowTarget(c, total, percentile)
                    THEN walk(i + 1, c, threshold + w)
                    ELSE threshold
    IN walk(0, 0, 0)

\* bandMath '(b1!=0)&&(b1<=pxlThreshold)?1:0'
DarkPxls(img, threshold) ==
    [k \in 1..Len(img) |-> IF img[k] # 0 /\ img[k] <= threshold THEN 1 ELSE 0]

\* rsgislib.segmentation.clump on a one-row mask: the sizes of the maximal
\* runs of 1, left to right
Clump(mask) ==
    LET RECURSIVE scan(_, _, _)
        scan(k, run, acc) ==
            IF k > Len(mask) THEN (IF run > 0 THEN Append(acc, run) ELSE acc)
            ELSE IF mask[k] = 1 THEN scan(k + 1, run + 1, acc)
            ELSE scan(k + 1, 0, IF run > 0 THEN Append(acc, run) ELSE acc)
    IN scan(1, 0, <<>>)

\* rsgislib.segmentation.rmSmallClumps then relabelClumps: the clumps of at
\* least minSize pixels, renumbered 1..n in order
RmSmallClumps(sizes, minSize) ==
    LET RECURSIVE keep(_, _)
        keep(k, acc) ==
            IF k > Len(sizes) THEN acc
            ELSE keep(k + 1, IF sizes[k] >= minSize THEN Append(acc, sizes[k]) ELSE acc)
    IN keep(1, <<>>)

SeqSum(sq) ==
    LET RECURSIVE add(_, _)
        add(k, acc) == IF k > Len(sq) THEN acc ELSE add(k + 1, acc + sq[k])
    IN add(1, 0)

\* populateStats on tmpDarkObjsImg: row 0 is the background, row i object i
HistogramColumn(img, threshold, minSize) ==
    LET objs == RmSmallClumps(Clump(DarkPxls(img, threshold)), minSize)
    IN <<Len(img) - SeqSum(objs)>> \o objs

\* Histogram.size > 10, lines 803-806
EnoughTargets(histogram) == Len(histogram) > MinTargets

\* darkPxlPercentile * 2, line 809.  The model stops doubling after
\* MaxDoublings doublings: by then the percentile is above 1 and a larger one
\* gives the same threshold.
DoublePercentile(percentile, n) ==
    IF n < MaxDoublings THEN percentile * 2 ELSE percentile

\* the pixels of tmpDarkObjsImg: the object id of each pixel after rmSmallClumps
\* and relabelClumps, 0 for the background; objects are numbered left to right
ObjectLabels(img, threshold, minSize) ==
    LET mask == DarkPxls(img, threshold)
        fill(n, v) == [i \in 1..n |-> v]
        RECURSIVE scan(_, _, _, _)
        scan(k, run, nextId, acc) ==
            IF k > Len(mask) \/ mask[k] = 0
            THEN LET kept == run > 0 /\ run >= minSize
                     closed == acc \o fill(run, IF kept THEN nextId ELSE 0)
                     id == IF kept THEN nextId + 1 ELSE nextId
                 IN IF k > Len(mask) THEN closed ELSE scan(k + 1, 0, id, Append(closed, 0))
            ELSE scan(k + 1, run + 1, nextId, acc)
    IN scan(1, 0, 1, <<>>)

\* the sum of vals[k] over the pixels k labelled r
SumOfObject(labels, vals, r) ==
    LET RECURSIVE add(_, _)
        add(k, acc) ==
            IF k > Len(labels) THEN acc
            ELSE add(k + 1, IF labels[k] = r THEN acc + vals[k] ELSE acc)
    IN add(1, 0)

\* populateStats, populateRATWithStats(minField, meanField) and spatialLocation:
\* one row per object id, row 0 the background.  MeanTOARefl is
\* SumTOARefl / Histogram and Eastings is SumEastings / Histogram - 1/2, in
\* pixels from the left edge of the image.
AttributeTable(img, labels) ==
    LET ids == {labels[k] : k \in 1..Len(labels)} \cup {0}
        n == CHOOSE i \in ids : \A o \in ids : o <= i
        pxls(r) == {k \in 1..Len(labels) : labels[k] = r}
        least(S) == IF S = {} THEN 0 ELSE CHOOSE v \in S : \A o \in S : v <= o
    IN [r \in 0..n |->
            [Histogram |-> Cardinality(pxls(r)),
             MinTOARefl |-> least({img[k] : k \in pxls(r)}),
             SumTOARefl |-> SumOfObject(labels, img, r),
             SumEastings |-> SumOfObject(labels, [k \in 1..Len(labels) |-> k], r)]]

\* lines 815-818: every row is offered to the grid selection but row 0
SelectedColumn(table) == [r \in DOMAIN table |-> IF r = 0 THEN 0 ELSE 1]

\* the Eastings of a row as the rational <<num, den>>
EastingsOf(row) == <<2 * row.SumEastings - row.Histogram, 2 * row.Histogram>>

\* the grid column (0..GridCols-1) that holds a row's location, the image
\* being width pixels wide
GridCellOf(row, width) ==
    (EastingsOf(row)[1] * GridCols) \div (EastingsOf(row)[2] * width)

\* MeanTOARefl of a < MeanTOARefl of b
MeanLess(a, b) == a.SumTOARefl * b.Histogram < b.SumTOARefl * a.Histogram

\* rsgislib.rastergis.selectClumpsOnGrid(.., "Selected", "SelectedGrid", ..,
\* "MeanTOARefl", "min", 20, 20): in every grid cell that holds an offered
\* row, one offered row of least MeanTOARefl gets 1, every other row 0.
\* tie names the row taken among several of the same least mean.
selectClumpsOnGrid(table, selected, width, tie) ==
    LET offered == {r \in DOMAIN table : selected[r] = 1 /\ table[r].Histogram > 0}
        cell(r) == GridCellOf(table[r], width)
        best(r) == \A o \in offered : cell(o) = cell(r) => ~MeanLess(table[o], table[r])
        winners(c) == {r \in offered : cell(r) = c /\ best(r)}
        pick(S) == IF tie = "first" THEN CHOOSE r \in S : \A o \in S : r <= o
                   ELSE CHOOSE r \in S : \A o \in S : o <= r
    IN [r \in DOMAIN table |->
            IF r \in offered /\ r = pick(winners(cell(r))) THEN 1 ELSE 0]

\* the mask that keeps every row
SampleRows_all(selectedGrid) ==
    LET n == CHOOSE i \in DOMAIN selectedGrid : \A o \in DOMAIN selectedGrid : o <= i
    IN [i \in 1..(n + 1) |-> i - 1]

\* lines 831-833: the rows kept by the mask SelectedGrid != 0, in row order
SampleRows(selectedGrid) ==
    LET n == CHOOSE i \in DOMAIN selectedGrid : \A o \in DOMAIN selectedGrid : o <= i
        RECURSIVE keep(_, _)
        keep(r, acc) ==
            IF r > n THEN acc
            ELSE keep(r + 1, IF selectedGrid[r] # 0 THEN Append(acc, r) ELSE acc)
    IN keep(0, <<>>)

InitDarkTarget ==
    /\ sensor = CHOOSE st \in SensorStates : st.month = 6
    /\ lutRun = NoRun
    /\ lutPrev = NoRun
    /\ dosCall = NoDOSCall
    /\ DarkTargetIdle
    /\ OthersIdle

\* lines 764-770: the call is entered and the histogram is taken
EnterCalcDarkTargetOffsetsForBand ==
    /\ dtPc \in {"idle", "done"}
    /\ \E img \in Bands, w \in BinWidths, m \in MinObjSizes, pct \in StartPercentiles :
        /\ band' = img
        /\ histBinWidth' = w
        /\ minObjSize' = m
        /\ startPercentile' = pct
        /\ darkPxlPercentile' = pct
    /\ retries' = 0
    /\ pxlThreshold' = 0
    /\ Histogram' = <<>>
    /\ rat' = <<>>
    /\ interpArgs' = NoInterpArgs
    /\ dtPc' = "walk"
    /\ UNCHANGED <<lutVars, dosVars, interpVars, aotVars, utilVars, hdrVars, extVars, blockVars, fileVars>>

\* lines 772-802: one pass of the loop body up to reading the Histogram column
ThresholdAndClump ==
    /\ dtPc = "walk"
    /\ pxlThreshold' = ThresholdWalk(band, histBinWidth, darkPxlPercentile)
    /\ Histogram' = HistogramColumn(band, pxlThreshold', minObjSize)
    /\ dtPc' = "check"
    /\ UNCHANGED <<band, histBinWidth, minObjSize, startPercentile, darkPxlPercentile, retries,
                   rat, interpArgs>>
    /\ UNCHANGED <<lutVars, dosVars, interpVars, aotVars, utilVars, hdrVars, extVars, blockVars, fileVars>>

\* lines 803-811: leave the loop, or double the percentile and go round again
CheckTargets ==
    /\ dtPc = "check"
    /\ IF EnoughTargets(Histogram)
       THEN /\ dtPc' = "select"
            /\ UNCHANGED <<darkPxlPercentile, retries>>
       ELSE /\ dtPc' = "walk"
            /\ darkPxlPercentile' = DoublePercentile(darkPxlPercentile, retries)
            /\ retries' = IF retries < MaxDoublings THEN retries + 1 ELSE retries
    /\ UNCHANGED <<band, histBinWidth, minObjSize, startPercentile, pxlThreshold, Histogram,
                   rat, interpArgs>>
    /\ UNCHANGED <<lutVars, dosVars, interpVars, aotVars, utilVars, hdrVars, extVars, blockVars, fileVars>>

\* lines 813-836: selection, grid selection and interpolation; the call returns
SelectAndInterpolate ==
    /\ dtPc = "select"
    /\ \E tie \in {"first", "last"},
          labels \in {ObjectLabels(band, pxlThreshold, minObjSize)} :
        \E table \in {AttributeTable(band, labels)} :
        \E selected \in {SelectedColumn(table)} :
        \E grid \in {selectClumpsOnGrid(table, selected, Len(band), tie)} :
        \E rows \in {SampleRows(grid)} :
           /\ rat' = [r \in DOMAIN table |->
                        [Histogram |-> table[r].Histogram,
                         MinTOARefl |-> table[r].MinTOARefl,
                         MeanTOARefl |-> <<table[r].SumTOARefl, table[r].Histogram>>,
                         Eastings |-> EastingsOf(table[r]),
                         Selected |-> selected[r],
                         SelectedGrid |-> grid[r]]]
           /\ interpArgs' = [rows |-> rows,
                             xVals |-> [i \in 1..Len(rows) |-> EastingsOf(table[rows[i]])],
                             zVals |-> [i \in 1..Len(rows) |-> table[rows[i]].MinTOARefl],
                             notNegOut |-> TRUE,
                             notNegMinVal |-> 0]
    /\ dtPc' = "done"
    /\ UNCHANGED <<band, histBinWidth, minObjSize, startPercentile, darkPxlPercentile,
                   retries, pxlThreshold, Histogram>>
    /\ UNCHANGED <<lutVars, dosVars, interpVars, aotVars, utilVars, hdrVars, extVars, blockVars, fileVars>>

NextDarkTarget ==
    \/ EnterCalcDarkTargetOffsetsForBand
    \/ ThresholdAndClump
    \/ CheckTargets
    \/ SelectAndInterpolate

\* the program is single-threaded and synchronous: a call that is under way
\* keeps executing
SpecDarkTarget == InitDarkTarget /\ [][NextDarkTarget]_vars /\ WF_vars(NextDarkTarget)

\* Where the model stops doubling, the loop's outcome no longer depends on
\* the percentile: the band has no pixel to threshold, or the walk ran past
\* every bin.
DoublingCapIsSaturation ==
    (dtPc = "check" /\ retries = MaxDoublings) =>
        \/ sumPxls(band) = 0
        \/ pxlThreshold = histBinWidth * NumBins(histBinWidth)

----------------------------------------------------------------------------
(* Claims about the dark-target extraction                                 *)

\* C8: the extraction of one band terminates for every band and every
\* starting percentile: a call that has entered the retry loop returns.
C8_Terminates == [](dtPc = "walk" => <>(dtPc = "done"))

\* labelled dark objects of the last pass, the background row not counted
NumDarkObjects == Len(Histogram) - 1

RECURSIVE Pow2(_)
Pow2(k) == IF k = 0 THEN 1 ELSE 2 * Pow2(k - 1)

\* C9: the loop is left exactly when the number of dark objects (background
\* not counted) is > 10 and goes round again, with the percentile doubled,
\* exactly when it is <= 10; after k retries the percentile is the starting
\* percentile times 2^k.
C9_RetryPolicy ==
    /\ dtPc \in {"select", "done"} => NumDarkObjects > 10
    /\ (dtPc = "walk" /\ retries > 0) => NumDarkObjects <= 10
    /\ dtPc # "idle" => darkPxlPercentile = startPercentile * Pow2(retries)

\* pixels counted by the bins 0..i of the histogram
CumulativeCount(img, w, i) ==
    Cardinality({k \in 1..Len(img) : img[k] >= 1 /\ img[k] < 10000 /\ img[k] < 1 + (i + 1) * w})

\* the bins at which the cumulative count has reached total * percentile
\* (every bin after the last one holding a pixel has the cumulative count of
\* the bin LastBin + 1)
ReachingBins(img, w, percentile) ==
    {i \in 0..(LastBin(img, w) + 1) :
        CumulativeCount(img, w, i) * PctDen >= sumPxls(img) * percentile}

\* C10: the threshold is histBinWidth times the index of the first bin at
\* which the cumulative count reaches total_pixels * percentile, or
\* histBinWidth times the number of bins when no bin reaches it; and no
\* smaller percentile gives a larger threshold.
C10_ThresholdWalk ==
    dtPc \in {"check", "select", "done"} =>
        LET reach == ReachingBins(band, histBinWidth, darkPxlPercentile)
            first == IF reach = {} THEN NumBins(histBinWidth)
                     ELSE CHOOSE i \in reach : \A o \in reach : i <= o
        IN /\ pxlThreshold = histBinWidth * first
           /\ \A q \in 1..darkPxlPercentile :
                ThresholdWalk(band, histBinWidth, q) <= pxlThreshold

\* a walk that stopped at a bin after the first and before the last, with
\* bins two units wide, after a retry
C10_Witness ==
    /\ dtPc = "check"
    /\ histBinWidth = 2
    /\ retries >= 1
    /\ pxlThreshold > 0
    /\ pxlThreshold < histBinWidth * NumBins(histBinWidth)

\* the attribute table written by the last pass agrees with the Histogram
\* column the loop read
TableMatchesHistogram ==
    dtPc = "done" =>
        /\ DOMAIN rat = 0..(Len(Histogram) - 1)
        /\ \A r \in DOMAIN rat : rat[r].Histogram = Histogram[r + 1]

\* C11: every sample handed to the interpolator is the MinTOARefl of its
\* object, is nonzero and <= the threshold of the last loop pass, belongs to
\* an object other than the background row 0 and has SelectedGrid # 0; and
\* every row but row 0 was offered to the grid selection (Selected = 1).
C11_DarkTargetSamples ==
    dtPc = "done" =>
        /\ \A r \in DOMAIN rat : rat[r].Selected = (IF r = 0 THEN 0 ELSE 1)
        /\ Len(interpArgs.zVals) = Len(interpArgs.rows)
        /\ Len(interpArgs.xVals) = Len(interpArgs.rows)
        /\ \A i \in 1..Len(interpArgs.rows) :
            LET r == interpArgs.rows[i]
                z == interpArgs.zVals[i]
            IN /\ r \in DOMAIN rat
               /\ r # 0
               /\ rat[r].SelectedGrid # 0
               /\ z = rat[r].MinTOARefl
               /\ interpArgs.xVals[i] = rat[r].Eastings
               /\ z # 0
               /\ z <= pxlThreshold
               /\ \E k \in 1..Len(band) : band[k] = z

\* a call that went round the loop again, ended with more objects than grid
\* cells can take, and handed over some objects while the grid selection
\* dropped another
C11_Witness ==
    /\ dtPc = "done"
    /\ retries >= 1
    /\ Len(interpArgs.rows) >= 2
    /\ \E r \in DOMAIN rat : r # 0 /\ rat[r].SelectedGrid = 0
    /\ \E i \in 1..Len(interpArgs.zVals) : interpArgs.zVals[i] < pxlThreshold

----------------------------------------------------------------------------
(* Interpolation of point samples: interpolateImageFromPointData           *)
(*                                                                         *)
(* The template raster is one row of pixels 1..width; a float is <<v>> and *)
(* NaN is <<>>.                                                            *)

\* bounds of the enumerated inputs
MaxWidth == 3
\* the reader's window (windowxsize=200), scaled down to the model's rasters
TileWidth == 2

NaN == <<>>
SampleVals == {-1, 2}
CubicVals == {-2, 0}
NotNegMinVals == {0, 1}
\* the 'cubic' method has a result only between samples, so needs two of them
CubicMinSamples == 2

\* one or two samples, left to right: xVals are pixel positions
SampleSeqs(width) ==
    {<<a>> : a \in [x : 1..width, z : SampleVals]}
    \cup {sq \in {<<a, b>> : a \in [x : 1..width, z : SampleVals],
                              b \in [x : 2..width, z : SampleVals]} : sq[1].x < sq[2].x}

\* the blocks the ImageReader yields: windows of TileWidth pixels, the last
\* one cut at the edge of the raster
Tiles(width) ==
    [t \in 1..CeilDiv(width, TileWidth) |->
        [lo |-> (t - 1) * TileWidth + 1,
         hi |-> IF t * TileWidth < width THEN t * TileWidth ELSE width]]

Dist(a, b) == IF a < b THEN b - a ELSE a - b

\* griddata(.., method='nearest') at pixel px: the value of a sample at the
\* least distance; tie names the one taken among several
griddata_nearest(xVals, zVals, px, tie) ==
    LET near == {i \in 1..Len(xVals) :
                    \A o \in 1..Len(xVals) : Dist(xVals[i], px) <= Dist(xVals[o], px)}
        i == IF tie = "first" THEN CHOOSE n \in near : \A o \in near : n <= o
             ELSE CHOOSE n \in near : \A o \in near : o <= n
    IN <<zVals[i]>>

\* the ways a tie can go: one where no pixel has two nearest samples
Ties(xVals, width) ==
    IF \E px \in 1..width : \E i, j \in 1..Len(xVals) :
            i # j /\ Dist(xVals[i], px) = Dist(xVals[j], px)
    THEN {"first", "last"} ELSE {"first"}

\* notNegOut and notNegMinVal as callers pass them; the DOS engine passes
\* True, 0.0
ClampFlags == {<<FALSE, 0>>} \cup {<<TRUE, m>> : m \in NotNegMinVals}

\* px lies in the convex hull of the samples
InHull(xVals, px) ==
    /\ Len(xVals) >= CubicMinSamples
    /\ \E i, j \in 1..Len(xVals) : xVals[i] <= px /\ px <= xVals[j]

\* griddata(.., method='cubic') over the raster: NaN outside the hull, some
\* value inside it
griddata_cubic(xVals, width) ==
    {f \in [1..width -> {NaN} \cup {<<v>> : v \in CubicVals}] :
        \A px \in 1..width : (f[px] = NaN) <=> ~InHull(xVals, px)}

\* the blend without the nearest-neighbour fallback
interZ_cubicOnly(cub, nn) == cub

\* line 1299: numpy.where(numpy.isnan(interZcub), interZnn, interZcub)
interZ(cub, nn) == IF cub = NaN THEN nn ELSE cub

\* the clamp with <= in place of <
notNeg_orZero(v, notNegOut, notNegMinVal) ==
    IF notNegOut /\ v # NaN /\ v[1] <= 0 THEN <<notNegMinVal>> ELSE v

\* lines 1300-1301: numpy.where(interZ < 0, notNegMinVal, interZ); NaN < 0 is false
notNeg(v, notNegOut, notNegMinVal) ==
    IF notNegOut /\ v # NaN /\ v[1] < 0 THEN <<notNegMinVal>> ELSE v

\* lines 1290-1314: the whole call.  Block 1 goes to the ImageWriter as its
\* firstblock, every later block to writer.write.
InterpolateImageFromPointData ==
    \E width \in 1..MaxWidth, flags \in ClampFlags :
    \E notNegOut \in {flags[1]}, notNegMinVal \in {flags[2]} :
    \E samples \in SampleSeqs(width) :
    \E xVals \in {[i \in 1..Len(samples) |-> samples[i].x]},
       zVals \in {[i \in 1..Len(samples) |-> samples[i].z]} :
    \E tie \in Ties(xVals, width) :
    \E interZcub \in griddata_cubic(xVals, width),
       interZnn \in {[px \in 1..width |-> griddata_nearest(xVals, zVals, px, tie)]} :
        /\ interp' =
            [fn |-> "interpolateImageFromPointData",
             width |-> width, xVals |-> xVals, zVals |-> zVals,
             notNegOut |-> notNegOut, notNegMinVal |-> notNegMinVal,
             interZnn |-> interZnn, interZcub |-> interZcub,
             blocks |-> [t \in DOMAIN Tiles(width) |->
                [lo |-> Tiles(width)[t].lo,
                 hi |-> Tiles(width)[t].hi,
                 via |-> IF t = 1 THEN "firstblock" ELSE "write",
                 out |-> [k \in 1..(Tiles(width)[t].hi - Tiles(width)[t].lo + 1) |->
                            notNeg(interZ(interZcub[Tiles(width)[t].lo + k - 1],
                                          interZnn[Tiles(width)[t].lo + k - 1]),
                                   notNegOut, notNegMinVal)]]]]
        /\ UNCHANGED <<lutVars, dosVars, dtVars, aotVars, utilVars, hdrVars, extVars, blockVars, fileVars>>

InitInterp ==
    /\ sensor = CHOOSE st \in SensorStates : st.month = 6
    /\ lutRun = NoRun
    /\ lutPrev = NoRun
    /\ dosCall = NoDOSCall
    /\ DarkTargetIdle
    /\ OthersIdle

NextInterp == InterpolateImageFromPointData

SpecInterp == InitInterp /\ [][NextInterp]_vars

----------------------------------------------------------------------------
(* Claims about the interpolation                                          *)

\* the blocks written that cover pixel px
BlocksOver(c, px) == {t \in DOMAIN c.blocks : c.blocks[t].lo <= px /\ px <= c.blocks[t].hi}

\* the value written for pixel px
Written(c, px) ==
    LET t == CHOOSE b \in BlocksOver(c, px) : TRUE
    IN c.blocks[t].out[px - c.blocks[t].lo + 1]

\* the blended value of pixel px, before the clamp
Blended(c, px) == IF c.interZcub[px] = NaN THEN c.interZnn[px] ELSE c.interZcub[px]

C13_NotNegClamp ==
    interp.fn # "none" =>
        \A px \in 1..interp.width :
            /\ (interp.notNegOut /\ Blended(interp, px)[1] < 0) =>
                Written(interp, px) = <<interp.notNegMinVal>>
            /\ (interp.notNegOut /\ Blended(interp, px)[1] >= 0) =>
                Written(interp, px) = Blended(interp, px)
            /\ (interp.notNegOut /\ interp.notNegMinVal >= 0) => Written(interp, px)[1] >= 0
            /\ ~interp.notNegOut => Written(interp, px) = Blended(interp, px)

\* a clamped call with a negative cubic value, a negative nearest value and
\* a blended value of 0, under a notNegMinVal other than 0
C13_Witness ==
    /\ interp.fn # "none"
    /\ interp.notNegOut
    /\ interp.notNegMinVal = 1
    /\ \E px \in 1..interp.width : interp.interZcub[px] # NaN /\ interp.interZcub[px][1] < 0
    /\ \E px \in 1..interp.width : interp.interZcub[px] = NaN /\ interp.interZnn[px][1] < 0
    /\ \E px \in 1..interp.width : Blended(interp, px) = <<0>> /\ Written(interp, px) = <<0>>

----------------------------------------------------------------------------
(* estimateSingleAOTFromDOSBandImpl: the choice of the dark object and   *)
(* the AOT search                                                          *)
(*                                                                         *)
(* The first step (lines 1167-1233) reads the attribute table of the       *)
(* relabelled dark-ROI clumps and leaves radVal, reflDOS and elevVal of the *)
(* chosen row; the search reads nothing else of it.  Row 1 of a table is   *)
(* the row of clump id 0, the background.  reflDOS is the rational         *)
(* <<numerator, 1000>>.                                                    *)

\* bound of the discrepancies the objective returns
MaxDist == 2

RadVals == {1, 2}
ElevMeans == {0, 500}

\* line 1174: an offset convertImageBandToReflectanceSimpleDarkSubtract returns,
\* and the dosOutRefl of the caller
BandOffs == {40}
AOTDosOutRefls == {20}

\* lines 1192-1207: a row of the attribute table of darkROIMaskClumpsFinal
RATRow(h, toa, rad, elev) ==
    [Histogram |-> h, MeanTOARefl |-> toa, MeanRad |-> rad, MeanElev |-> elev]

\* lines 1184, 1190: the count populateStats writes in the row of clump id 0:
\* 0 when it leaves the zero value out, the number of background pixels
\* otherwise
BackgroundCounts == {0, 40}

\* line 1187: rmSmallClumps(..., 5, ...) leaves clumps of 5 pixels and more
ClumpRows ==
    {<<>>,
     <<RATRow(5, 50, 1, 0), RATRow(9, 90, 2, 500)>>,
     <<RATRow(5, 90, 2, 0), RATRow(9, 50, 1, 0), RATRow(9, 90, 1, 500)>>}

\* lines 1203-1207
RATTables ==
    {<<RATRow(bg, 70, 2, 0)>> \o rows : bg \in BackgroundCounts, rows \in ClumpRows}

\* numpy.max of a column
numpy_max(col) ==
    CHOOSE v \in {col[i] : i \in 1..Len(col)} : \A i \in 1..Len(col) : col[i] <= v

\* lines 1210, 1214: numpy.where(Histogram == numpy.max(Histogram)) and the
\* [0] that takes the first of the rows found
maxObjSizeArrIdx(hist) ==
    CHOOSE i \in 1..Len(hist) :
        /\ hist[i] = numpy_max(hist)
        /\ \A j \in 1..(i - 1) : hist[j] # numpy_max(hist)

\* lines 1214-1218
reflDOSOf(reflTOA, bandOff, dosOutRefl) ==
    LET reflDOS == reflTOA - bandOff
    IN <<IF reflDOS < dosOutRefl THEN dosOutRefl ELSE reflDOS, 1000>>
DistVals == 0..MaxDist

\* line 1236: int(math.ceil((aotValMax - aotValMin)/0.05))+1
numAOTValTests(aotValMin, aotValMax) == CeilDiv(aotValMax - aotValMin, AOTStep) + 1

\* line 1237: the guard under which the search runs
EnoughAOTValTests(n) == n >= 1

\* line 1247: the arguments of one call of run6SToOptimiseAODValue
ObjectiveCall(cAOT, radVal, reflDOS, elevVal) ==
    [aot |-> cAOT, radVal |-> radVal, reflDOS |-> reflDOS,
     altitude |-> <<elevVal, MetresPerKm>>]

\* the comparison with <= in place of <
CloserThan_orEqual(cDist, minDist) == cDist <= minDist

\* line 1251: elif cDist < minDist
CloserThan(cDist, minDist) == cDist < minDist

\* lines 1240-1254: the loop over the candidates; cDist[j + 1] is what the
\* objective returns for candidate j
AOTSearch(aotValMin, n, cDist) ==
    LET RECURSIVE loop(_, _, _)
        loop(j, minAOT, minDist) ==
            IF j >= n THEN minAOT
            ELSE LET cAOT == aotValMin + AOTStep * j
                 IN IF j = 0 THEN loop(j + 1, cAOT, cDist[j + 1])
                    ELSE IF CloserThan(cDist[j + 1], minDist)
                         THEN loop(j + 1, cAOT, cDist[j + 1])
                         ELSE loop(j + 1, minAOT, minDist)
    IN loop(0, 0, 0)

\* lines 1166-1257
EstimateSingleAOTFromDOSBandImpl ==
    \E aotValMin \in AOTVals, aotValMax \in AOTVals,
       table \in RATTables, bandOff \in BandOffs, dosOutRefl \in AOTDosOutRefls :
    \E idx \in {maxObjSizeArrIdx([i \in 1..Len(table) |-> table[i].Histogram])} :
    \E radVal \in {table[idx].MeanRad}, elevVal \in {table[idx].MeanElev},
       reflDOS \in {reflDOSOf(table[idx].MeanTOARefl, bandOff, dosOutRefl)} :
    \E n \in {numAOTValTests(aotValMin, aotValMax)} :
        /\ IF ~EnoughAOTValTests(n)
           THEN aotRun' = [fn |-> "estimateSingleAOTFromDOSBandImpl",
                           aotValMin |-> aotValMin, aotValMax |-> aotValMax,
                           rat |-> table, bandOff |-> bandOff, dosOutRefl |-> dosOutRefl,
                           radVal |-> radVal, reflDOS |-> reflDOS, elevVal |-> elevVal,
                           outcome |-> "ARCSIException",
                           calls |-> <<>>, cDist |-> <<>>, aotVal |-> 0]
           ELSE \E cDist \in [1..n -> DistVals] :
                aotRun' = [fn |-> "estimateSingleAOTFromDOSBandImpl",
                           aotValMin |-> aotValMin, aotValMax |-> aotValMax,
                           rat |-> table, bandOff |-> bandOff, dosOutRefl |-> dosOutRefl,
                           radVal |-> radVal, reflDOS |-> reflDOS, elevVal |-> elevVal,
                           outcome |-> "returned",
                           calls |-> [i \in 1..n |->
                                ObjectiveCall(aotValMin + AOTStep * (i - 1),
                                              radVal, reflDOS, elevVal)],
                           cDist |-> cDist,
                           aotVal |-> AOTSearch(aotValMin, n, cDist)]
        /\ UNCHANGED <<lutVars, dosVars, dtVars, interpVars, utilVars, hdrVars, extVars, blockVars, fileVars>>

InitAOT ==
    /\ sensor = CHOOSE st \in SensorStates : st.month = 6
    /\ lutRun = NoRun
    /\ lutPrev = NoRun
    /\ dosCall = NoDOSCall
    /\ DarkTargetIdle
    /\ OthersIdle

NextAOT == EstimateSingleAOTFromDOSBandImpl

SpecAOT == InitAOT /\ [][NextAOT]_vars

----------------------------------------------------------------------------
(* Claims about the AOT search                                             *)

\* the least integer c with c * step >= d: the ceiling of d / step
LeastMultiple(d, step) ==
    LET m == IF d < 0 THEN -d ELSE d
    IN CHOOSE c \in (-m)..m : c * step >= d /\ (c - 1) * step < d

\* C14: a search that returns has called the objective exactly
\* ceil((aotValMax - aotValMin)/0.05) + 1 times, on the candidates
\* aotValMin + 0.05*j in ascending j, each time with the same radiance,
\* reflectance and elevation/1000; it returns a candidate of the smallest
\* discrepancy, and the first such candidate when several share it.
C14_AOTSearch ==
    (aotRun.fn # "none" /\ aotRun.outcome = "returned") =>
        LET n == LeastMultiple(aotRun.aotValMax - aotRun.aotValMin, 5) + 1
        IN /\ Len(aotRun.calls) = n
           /\ \A i \in 1..n :
                /\ aotRun.calls[i].aot = aotRun.aotValMin + 5 * (i - 1)
                /\ aotRun.calls[i].radVal = aotRun.radVal
                /\ aotRun.calls[i].reflDOS = aotRun.reflDOS
                /\ aotRun.calls[i].altitude = <<aotRun.elevVal, 1000>>
           /\ \E r \in 1..n :
                /\ aotRun.aotVal = aotRun.calls[r].aot
                /\ \A i \in 1..n : aotRun.cDist[r] <= aotRun.cDist[i]
                /\ \A i \in 1..(r - 1) : aotRun.cDist[i] > aotRun.cDist[r]

\* a search over three candidates in which a later candidate ties with the
\* one returned, which is not the first candidate
C14_Witness ==
    /\ aotRun.fn # "none"
    /\ aotRun.outcome = "returned"
    /\ Len(aotRun.calls) = 3
    /\ aotRun.aotVal = aotRun.aotValMin + 5
    /\ aotRun.cDist[3] = aotRun.cDist[2]
    /\ aotRun.cDist[1] > aotRun.cDist[2]

\* C15: whenever aotValMax - aotValMin is below one step of 0.05 (aotValMax =
\* aotValMin included) the call raises ARCSIException and has not called
\* the objective.
C15_NarrowRangeRaises ==
    (aotRun.fn # "none" /\ aotRun.aotValMax - aotRun.aotValMin < 5) =>
        /\ aotRun.outcome = "ARCSIException"
        /\ aotRun.calls = <<>>

----------------------------------------------------------------------------
(* SensorState utilities: checkInputImageValid, defaultGenBaseOutFileName, *)
(* getJSONDictDefaultMetaData and getReProjBBOX                            *)
(*                                                                         *)
(* A text is a sequence of one-character strings.  latCentre and lonCentre *)
(* are in thousandths of a degree; projected coordinates and pixel         *)
(* resolutions are whole map units.                                        *)

\* bound of the pixel resolutions offered by callers
MaxPxlRes == 3

\* every field of the object that the utilities read
SensorObject(name, time, lat, lon, x, y, w, h, skew) ==
    [sensor |-> name, acquisitionTime |-> time,
     latCentre |-> lat, lonCentre |-> lon,
     latTL |-> lat + 500, lonTL |-> lon - 500, latTR |-> lat + 500, lonTR |-> lon + 500,
     latBL |-> lat - 500, lonBL |-> lon - 500, latBR |-> lat - 500, lonBR |-> lon + 500,
     xTL |-> x, yTL |-> y + h, xTR |-> x + w, yTR |-> y + h + skew,
     xBL |-> x + skew, yBL |-> y, xBR |-> x + w, yBR |-> y,
     xCentre |-> x + (w \div 2), yCentre |-> y + (h \div 2),
     solarZenith |-> 30, solarAzimuth |-> 140, senorZenith |-> 0, senorAzimuth |-> 0]

AcquisitionTimes ==
    {[year |-> 2001, month |-> 6, day |-> 15, hour |-> 14, minute |-> 5, second |-> 9],
     [year |-> 1972, month |-> 11, day |-> 3, hour |-> 0, minute |-> 59, second |-> 30]}

\* an object as __init__ leaves it (lines 115-144), and objects after a header
\* has been read
SensorObjects ==
    {SensorObject(<<"N", "A">>, t, 0, 0, 0, 0, 0, 0, 0) :
        t \in {a \in AcquisitionTimes : a.year = 2001}}
    \cup {SensorObject(<<"L", "S", "1", "M", "S", "S">>, t, 9500, -69500, 10, 20, 4, 6, 0) :
        t \in AcquisitionTimes}
    \cup {SensorObject(<<"L", "S", "1", "M", "S", "S">>, t, -12346, 120004, -11, -7, 6, 4, 1) :
        t \in {a \in AcquisitionTimes : a.year = 1972}}
    \cup {SensorObject(<<"L", "S", "1", "M", "S", "S">>, t, 8500, 254, 3, -5, 2, 8, 0) :
        t \in {a \in AcquisitionTimes : a.year = 1972}}

\* the Python major version the library runs under
PythonMajors == {2, 3}

\* what a subclass's expectedImageDataPresent may return
PresentValues == {"True", "False", "None"}

\* Python truth of such a value
Truthy(v) == v = "True"

\* the guard that never fires
InputsMissing_never(present) == FALSE

\* line 271: not self.expectedImageDataPresent()
InputsMissing(present) == ~Truthy(present)

\* lines 270-272
CheckInputImageValid ==
    \E self \in SensorObjects, present \in PresentValues :
        /\ utilCall' = [fn |-> "checkInputImageValid", before |-> self, after |-> self,
                        present |-> present,
                        outcome |-> IF InputsMissing(present) THEN "ARCSIException"
                                    ELSE "returned"]
        /\ UNCHANGED <<lutVars, dosVars, dtVars, interpVars, aotVars, hdrVars, extVars, blockVars, fileVars>>

Abs(n) == IF n < 0 THEN -n ELSE n

DigitChar(d) == <<"0", "1", "2", "3", "4", "5", "6", "7", "8", "9">>[d + 1]

\* the decimal digits of a natural number
RECURSIVE Digits(_)
Digits(n) == IF n < 10 THEN <<DigitChar(n)>> ELSE Append(Digits(n \div 10), DigitChar(n % 10))

\* the decimal digits of n, zero-padded on the left to width characters
RECURSIVE Padded(_, _)
Padded(n, width) ==
    IF Len(Digits(n)) >= width THEN Digits(n) ELSE <<"0">> \o Padded(n, width - 1)

\* acquisitionTime.strftime("%Y%m%d")
strftime_Ymd(time) == Padded(time.year, 4) \o Padded(time.month, 2) \o Padded(time.day, 2)

\* numerator n over denominator den, rounded to the nearest integer, a tie
\* going to the even one
RoundHalfEven(n, den) ==
    LET q == n \div den
        r == n % den
    IN IF 2 * r < den THEN q
       ELSE IF 2 * r > den THEN q + 1
       ELSE IF q % 2 = 0 THEN q ELSE q + 1

\* the same, a tie going away from zero
RoundHalfAway(n, den) ==
    IF n >= 0 THEN (2 * n + den) \div (2 * den) ELSE -((2 * (-n) + den) \div (2 * den))

\* str() of a float given in hundredths: sign, integer part, point, and one
\* or two decimals
StrFloat(hundredths) ==
    LET a == Abs(hundredths)
        frac == a % 100
    IN (IF hundredths < 0 THEN <<"-">> ELSE <<>>)
       \o Digits(a \div 100) \o <<".">>
       \o (IF frac % 10 = 0 THEN <<DigitChar(frac \div 10)>> ELSE Padded(frac, 2))

\* str() of an int
StrInt(n) == (IF n < 0 THEN <<"-">> ELSE <<>>) \o Digits(Abs(n))

\* str(round(v, 2)) for v in thousandths
StrRound2(v) == StrFloat(RoundHalfEven(v, 10))

\* str(round(v,)) for v in thousandths: round with no digits gives an int
\* rounded half to even under Python 3, a float rounded half away from zero
\* under Python 2
StrRoundNoDigits(v, py) ==
    IF py = 3 THEN StrInt(RoundHalfEven(v, 1000))
    ELSE StrFloat(100 * RoundHalfAway(v, 1000))

\* text.replace(ch, '')
Without(text, ch) ==
    LET keep(c) == c # ch
    IN SelectSeq(text, keep)

\* .replace('.', '').replace('-', '')
StripPointAndSign(text) == Without(Without(text, "."), "-")

\* lines 274-284
defaultGenBaseOutFileName(self, py) ==
    LET date == strftime_Ymd(self.acquisitionTime)
        pos == <<"l", "a", "t">> \o StripPointAndSign(StrRoundNoDigits(self.latCentre, py))
               \o <<"l", "o", "n">> \o StripPointAndSign(StrRound2(self.lonCentre))
    IN self.sensor \o <<"_">> \o date \o <<"_">> \o pos

\* lines 286-290
generateOutputBaseName(self, py) == defaultGenBaseOutFileName(self, py)

DefaultGenBaseOutFileName ==
    \E self \in SensorObjects, py \in PythonMajors :
        /\ utilCall' = [fn |-> "defaultGenBaseOutFileName", before |-> self, after |-> self,
                        python |-> py, outcome |-> "returned",
                        result |-> defaultGenBaseOutFileName(self, py)]
        /\ UNCHANGED <<lutVars, dosVars, dtVars, interpVars, aotVars, hdrVars, extVars, blockVars, fileVars>>

NoEntries == [k \in {} |-> 0]

\* calcdValuesDict and outFilesDict as callers pass them; a file is the
\* sequence of its path components
CalcdValuesDicts == {NoEntries, [ARCSI_AOT_VALUE |-> 25]}
OutFilesDicts == {NoEntries, [RADIANCE |-> <<"out", "ls1_rad.kea">>]}

\* datetime.datetime.today() at the time of the call
ProcessTimes ==
    {[year |-> 2015, month |-> 2, day |-> 28, hour |-> 23, minute |-> 1, second |-> 2]}

\* os.path.basename
basename(path) == path[Len(path)]

\* a row of the valid-mask attribute table
MaskRow(minX, maxX, minY, maxY) ==
    [MinXX |-> minX, MinXY |-> minY + 1, MaxXX |-> maxX, MaxXY |-> maxY - 1,
     MinYX |-> minX + 1, MinYY |-> minY, MaxYX |-> maxX - 1, MaxYY |-> maxY]

\* the row of a polygon that is not present
AbsentRow ==
    [MinXX |-> 0, MinXY |-> 0, MaxXX |-> 0, MaxXY |-> 0,
     MinYX |-> 0, MinYY |-> 0, MaxYX |-> 0, MaxYY |-> 0]

\* attribute tables of validMaskImage: row 1 is the no-data row
MaskTables ==
    {<<AbsentRow>>,
     <<AbsentRow, MaskRow(2, 8, 4, 10)>>,
     <<AbsentRow, AbsentRow, MaskRow(-6, 2, -4, 0)>>,
     <<AbsentRow, MaskRow(2, 8, 4, 10), MaskRow(-6, 2, -4, 0)>>}

\* lines 361-386: the rows but the first that are not all zero
PresentFeatures(table) ==
    LET present(row) == row # AbsentRow
    IN SelectSeq(Tail(table), present)

\* lines 390-412: the Projected block taken from the one feature of the mask;
\* a half is the rational <<num, 2>>
locProjDictFromMask(feats) ==
    IF Len(feats) = 1
    THEN [BBOX |-> [TLX |-> feats[1].MinXX, TLY |-> feats[1].MaxYY,
                    TRX |-> feats[1].MaxXX, TRY |-> feats[1].MaxYY,
                    BLX |-> feats[1].MinXX, BLY |-> feats[1].MinYY,
                    BRX |-> feats[1].MaxXX, BRY |-> feats[1].MinYY],
          CentreX |-> <<2 * feats[1].MinXX + (feats[1].MaxXX - feats[1].MinXX), 2>>,
          CentreY |-> <<2 * feats[1].MinYY + (feats[1].MaxYY - feats[1].MinYY), 2>>,
          VPOLY |-> [MinXX |-> feats[1].MinXX, MinXY |-> feats[1].MinXY,
                     MaxYX |-> feats[1].MaxYX, MaxYY |-> feats[1].MaxYY,
                     MaxXX |-> feats[1].MaxXX, MaxXY |-> feats[1].MaxXY,
                     MinYX |-> feats[1].MinYX, MinYY |-> feats[1].MinYY]]
    ELSE NoEntries

\* the BBOX with the top-right Y taken from the top-left corner
locProjBBOXDict_square(self) ==
    [TLX |-> self.xTL, TLY |-> self.yTL, TRX |-> self.xTR, TRY |-> self.yTL,
     BLX |-> self.xBL, BLY |-> self.yBL, BRX |-> self.xBR, BRY |-> self.yBR]

\* lines 417-425
locProjBBOXDict(self) ==
    [TLX |-> self.xTL, TLY |-> self.yTL, TRX |-> self.xTR, TRY |-> self.yTR,
     BLX |-> self.xBL, BLY |-> self.yBL, BRX |-> self.xBR, BRY |-> self.yBR]

\* lines 292-441.  validMaskImage is "" or names a mask whose attribute
\* table is maskTable.
getJSONDictDefaultMetaData(self, py, now, productsStr, validMaskImage, maskTable, calcdValuesDict, outFilesDict) ==
    LET softwareDict == [Name |-> "ARCSI", URL |-> "ARCSI_WEBSITE", Version |-> "ARCSI_VERSION"]
        fixedProducts ==
            [ARCSIProducts |-> productsStr,
             ProcessDate |-> [Year |-> now.year, Month |-> now.month, Day |-> now.day],
             ProcessTime |-> [Hour |-> now.hour, Minute |-> now.minute, Second |-> now.second]]
        productsDict ==
            [k \in DOMAIN fixedProducts \cup DOMAIN calcdValuesDict |->
                IF k \in DOMAIN calcdValuesDict THEN calcdValuesDict[k] ELSE fixedProducts[k]]
        filesDict ==
            [k \in {"FileBaseName"} \cup DOMAIN outFilesDict |->
                IF k \in DOMAIN outFilesDict THEN basename(outFilesDict[k])
                ELSE generateOutputBaseName(self, py)]
        sensorDict == [ARCSISensorName |-> self.sensor]
        acqDict ==
            [Date |-> [Year |-> self.acquisitionTime.year,
                       Month |-> self.acquisitionTime.month,
                       Day |-> self.acquisitionTime.day],
             Time |-> [Hour |-> self.acquisitionTime.hour,
                       Minute |-> self.acquisitionTime.minute,
                       Second |-> self.acquisitionTime.second],
             SolarZenith |-> self.solarZenith, SolarAzimuth |-> self.solarAzimuth,
             SenorZenith |-> self.senorZenith, SenorAzimuth |-> self.senorAzimuth]
        locGeogDict ==
            [CentreLon |-> self.lonCentre, CentreLat |-> self.latCentre,
             BBOX |-> [TLLat |-> self.latTL, TLLon |-> self.lonTL,
                       TRLat |-> self.latTR, TRLon |-> self.lonTR,
                       BLLat |-> self.latBL, BLLon |-> self.lonBL,
                       BRLat |-> self.latBR, BRLon |-> self.lonBR]]
        locProjDict ==
            IF validMaskImage # ""
            THEN locProjDictFromMask(PresentFeatures(maskTable))
            ELSE [CentreX |-> self.xCentre, CentreY |-> self.yCentre,
                  BBOX |-> locProjBBOXDict(self)]
    IN [FileInfo |-> filesDict,
        SensorInfo |-> sensorDict,
        AcquasitionInfo |-> acqDict,
        LocationInfo |-> [Geographical |-> locGeogDict, Projected |-> locProjDict],
        ProductsInfo |-> productsDict,
        SoftwareInfo |-> softwareDict]

\* the calls with and without a valid-data mask
MaskArguments ==
    {<<"", <<AbsentRow>>, FALSE>>}
    \cup {<<"valid.kea", t, f>> : t \in MaskTables, f \in BOOLEAN}

GetJSONDictDefaultMetaData ==
    \E self \in SensorObjects, now \in ProcessTimes, mask \in MaskArguments,
       calcdValuesDict \in CalcdValuesDicts, outFilesDict \in OutFilesDicts :
        /\ utilCall' = [fn |-> "getJSONDictDefaultMetaData", before |-> self, after |-> self,
                        python |-> 3, validMaskImage |-> mask[1], maskTable |-> mask[2],
                        footprintCalc |-> mask[3], outcome |-> "returned",
                        result |-> getJSONDictDefaultMetaData(self, 3, now, "RAD TOA",
                                        mask[1], mask[2], calcdValuesDict, outFilesDict)]
        /\ UNCHANGED <<lutVars, dosVars, dtVars, interpVars, aotVars, hdrVars, extVars, blockVars, fileVars>>

\* a target CRS, as far as the model goes: the shift it applies to a point
\* of the source CRS
TargetCRSs == {[dx |-> 0, dy |-> 0], [dx |-> 7, dy |-> -5]}

\* point.TransformTo(tarProj)
TransformTo(x, y, tarProj) == [X |-> x + tarProj.dx, Y |-> y + tarProj.dy]

\* the snap that rounds up
SnapDown_ceil(v, res) == CeilDiv(v, res) * res

\* math.floor(v/res)*res
SnapDown(v, res) == (v \div res) * res

\* math.ceil(v/res)*res
SnapUp(v, res) == CeilDiv(v, res) * res

\* lines 467-518; wktCRS and proj4CRS are what wktFile and proj4File hold
getReProjBBOX(self, wktCRS, proj4CRS, useWKT2Reproject, xPxlRes, yPxlRes, snap2Grid) ==
    LET yPxlResAbs == Abs(yPxlRes)
        tarProj == IF useWKT2Reproject THEN wktCRS ELSE proj4CRS
        tl == TransformTo(self.xTL, self.yTL, tarProj)
        br == TransformTo(self.xBR, self.yBR, tarProj)
    IN [MinX |-> SnapDown(tl.X, xPxlRes),
        MaxY |-> SnapUp(tl.Y, yPxlResAbs),
        MaxX |-> SnapUp(br.X, xPxlRes),
        MinY |-> SnapDown(br.Y, yPxlResAbs)]

GetReProjBBOX ==
    \E self \in SensorObjects, wktCRS \in TargetCRSs, proj4CRS \in TargetCRSs,
       useWKT2Reproject \in BOOLEAN, xPxlRes \in 2..MaxPxlRes,
       yPxlRes \in {-MaxPxlRes, 2}, snap2Grid \in BOOLEAN :
        /\ utilCall' = [fn |-> "getReProjBBOX", before |-> self, after |-> self,
                        tarProj |-> IF useWKT2Reproject THEN wktCRS ELSE proj4CRS,
                        wktCRS |-> wktCRS, proj4CRS |-> proj4CRS,
                        useWKT2Reproject |-> useWKT2Reproject,
                        xPxlRes |-> xPxlRes, yPxlRes |-> yPxlRes, snap2Grid |-> snap2Grid,
                        outcome |-> "returned",
                        result |-> getReProjBBOX(self, wktCRS, proj4CRS, useWKT2Reproject,
                                                 xPxlRes, yPxlRes, snap2Grid)]
        /\ UNCHANGED <<lutVars, dosVars, dtVars, interpVars, aotVars, hdrVars, extVars, blockVars, fileVars>>

InitUtil ==
    /\ sensor = CHOOSE st \in SensorStates : st.month = 6
    /\ lutRun = NoRun
    /\ lutPrev = NoRun
    /\ dosCall = NoDOSCall
    /\ DarkTargetIdle
    /\ OthersIdle

NextUtil ==
    \/ CheckInputImageValid
    \/ DefaultGenBaseOutFileName
    \/ GetJSONDictDefaultMetaData
    \/ GetReProjBBOX

SpecUtil == InitUtil /\ [][NextUtil]_vars

----------------------------------------------------------------------------
(* Claims about the SensorState utilities                                  *)

\* C16: checkInputImageValid raises ARCSIException exactly when
\* expectedImageDataPresent returned a false value and returns normally
\* otherwise; either way every SensorState field is as before the call.
C16_ValidityGate ==
    utilCall.fn = "checkInputImageValid" =>
        /\ (utilCall.outcome = "ARCSIException") <=> (utilCall.present \in {"False", "None"})
        /\ (utilCall.outcome = "returned") <=> (utilCall.present = "True")
        /\ utilCall.after = utilCall.before

\* a call that raised because the subclass method returned None
C16_Witness ==
    /\ utilCall.fn = "checkInputImageValid"
    /\ utilCall.present = "None"
    /\ utilCall.outcome = "ARCSIException"
    /\ utilCall.before.sensor # <<"N", "A">>

\* the position token with both coordinates rounded to 2 decimals
TokenRoundedTo2(self) ==
    <<"l", "a", "t">> \o StripPointAndSign(StrRound2(self.latCentre))
    \o <<"l", "o", "n">> \o StripPointAndSign(StrRound2(self.lonCentre))

\* C17: the base name is sensor, '_', YYYYMMDD of the acquisition date, '_'
\* and the position token in which both latCentre and lonCentre are rounded
\* to 2 decimals and stripped of '.' and '-'; for latCentre 9.5, lonCentre
\* -69.5 and 2001-06-15 the token is lat95lon695.
C17_BaseName ==
    utilCall.fn = "defaultGenBaseOutFileName" =>
        /\ utilCall.result =
            utilCall.before.sensor \o <<"_">> \o strftime_Ymd(utilCall.before.acquisitionTime)
            \o <<"_">> \o TokenRoundedTo2(utilCall.before)
        /\ (/\ utilCall.before.latCentre = 9500
            /\ utilCall.before.lonCentre = -69500
            /\ utilCall.before.acquisitionTime.year = 2001) =>
                utilCall.result =
                    utilCall.before.sensor
                    \o <<"_", "2", "0", "0", "1", "0", "6", "1", "5", "_">>
                    \o <<"l", "a", "t", "9", "5", "l", "o", "n", "6", "9", "5">>

\* C18: without a valid-data mask the dictionary has exactly the six
\* top-level keys; AcquasitionInfo Date and Time are the fields of
\* acquisitionTime; LocationInfo.Projected BBOX and CentreX/CentreY are the
\* stored xTL..yBR and xCentre/yCentre; and the SensorState is as before.
C18_MetaDataRoundTrip ==
    (utilCall.fn = "getJSONDictDefaultMetaData" /\ utilCall.validMaskImage = "") =>
        LET d == utilCall.result
            self == utilCall.before
            t == self.acquisitionTime
        IN /\ DOMAIN d = {"FileInfo", "SensorInfo", "AcquasitionInfo", "LocationInfo",
                          "ProductsInfo", "SoftwareInfo"}
           /\ d.AcquasitionInfo.Date = [Year |-> t.year, Month |-> t.month, Day |-> t.day]
           /\ d.AcquasitionInfo.Time = [Hour |-> t.hour, Minute |-> t.minute, Second |-> t.second]
           /\ d.LocationInfo.Projected.BBOX.TLX = self.xTL
           /\ d.LocationInfo.Projected.BBOX.TLY = self.yTL
           /\ d.LocationInfo.Projected.BBOX.TRX = self.xTR
           /\ d.LocationInfo.Projected.BBOX.TRY = self.yTR
           /\ d.LocationInfo.Projected.BBOX.BLX = self.xBL
           /\ d.LocationInfo.Projected.BBOX.BLY = self.yBL
           /\ d.LocationInfo.Projected.BBOX.BRX = self.xBR
           /\ d.LocationInfo.Projected.BBOX.BRY = self.yBR
           /\ DOMAIN d.LocationInfo.Projected.BBOX =
                {"TLX", "TLY", "TRX", "TRY", "BLX", "BLY", "BRX", "BRY"}
           /\ d.LocationInfo.Projected.CentreX = self.xCentre
           /\ d.LocationInfo.Projected.CentreY = self.yCentre
           /\ utilCall.after = self

\* a call without a mask on an object whose four corners all differ, with
\* extra entries passed for ProductsInfo and FileInfo
C18_Witness ==
    /\ utilCall.fn = "getJSONDictDefaultMetaData"
    /\ utilCall.validMaskImage = ""
    /\ utilCall.before.yTR # utilCall.before.yTL
    /\ utilCall.before.xBL # utilCall.before.xTL
    /\ "ARCSI_AOT_VALUE" \in DOMAIN utilCall.result.ProductsInfo
    /\ "RADIANCE" \in DOMAIN utilCall.result.FileInfo

\* C19: with (X_TL, Y_TL) and (X_BR, Y_BR) the transformed corners, MinX and
\* MinY are the largest multiples of the resolution not above X_TL and Y_BR,
\* MaxY and MaxX the smallest multiples not below Y_TL and X_BR; so every
\* edge is a multiple of the resolution, lies less than one pixel from its
\* corner coordinate, and the box contains both corners; snap2Grid makes no
\* difference.
C19_ReProjBBOX ==
    utilCall.fn = "getReProjBBOX" =>
        LET box == utilCall.result
            self == utilCall.before
            xRes == utilCall.xPxlRes
            yRes == IF utilCall.yPxlRes < 0 THEN -utilCall.yPxlRes ELSE utilCall.yPxlRes
            X_TL == self.xTL + utilCall.tarProj.dx
            Y_TL == self.yTL + utilCall.tarProj.dy
            X_BR == self.xBR + utilCall.tarProj.dx
            Y_BR == self.yBR + utilCall.tarProj.dy
        IN /\ box.MinX % xRes = 0 /\ box.MinX <= X_TL /\ X_TL - box.MinX < xRes
           /\ box.MaxY % yRes = 0 /\ box.MaxY >= Y_TL /\ box.MaxY - Y_TL < yRes
           /\ box.MaxX % xRes = 0 /\ box.MaxX >= X_BR /\ box.MaxX - X_BR < xRes
           /\ box.MinY % yRes = 0 /\ box.MinY <= Y_BR /\ Y_BR - box.MinY < yRes
           /\ (X_TL <= X_BR /\ Y_BR <= Y_TL) =>
                /\ box.MinX <= X_BR /\ X_TL <= box.MaxX
                /\ box.MinY <= Y_TL /\ Y_BR <= box.MaxY
           /\ box = getReProjBBOX(self, utilCall.wktCRS, utilCall.proj4CRS,
                                  utilCall.useWKT2Reproject, utilCall.xPxlRes,
                                  utilCall.yPxlRes, ~utilCall.snap2Grid)

\* a call into a shifted CRS, with a negative yPxlRes, in which every edge
\* moved off its corner coordinate and a corner coordinate is negative
C19_Witness ==
    /\ utilCall.fn = "getReProjBBOX"
    /\ utilCall.tarProj.dx # 0
    /\ utilCall.yPxlRes < 0
    /\ utilCall.result.MinX < utilCall.before.xTL + utilCall.tarProj.dx
    /\ utilCall.result.MaxX > utilCall.before.xBR + utilCall.tarProj.dx
    /\ utilCall.result.MinY < utilCall.before.yBR + utilCall.tarProj.dy
    /\ utilCall.result.MaxY > utilCall.before.yTL + utilCall.tarProj.dy
    /\ utilCall.result.MinY < 0

----------------------------------------------------------------------------
(* Header parsing: the reading loop of extractHeaderParameters (Landsat 1   *)
(* MSS)                                                                    *)
(*                                                                         *)
(* A line is a sequence of tokens: a word, " ", "=" or a double quote.     *)

\* bound of the number of lines of a header
MaxHeaderLines == 3

Quote == "\""

HeaderLines ==
    {<<"GROUP", " ", "=", " ", "L1_METADATA_FILE">>,
     <<" ", "END_GROUP", " ", "=", " ", "L1_METADATA_FILE">>,
     <<" ", "SENSOR_ID", " ", "=", " ", Quote, "MSS", Quote, " ">>,
     <<"SENSOR_ID", "=", "TM">>,
     <<"NOTE", "=", "A", "=", "B">>,
     <<"END">>,
     <<" ", " ">>}

\* str.strip()
RECURSIVE lstrip(_)
lstrip(text) == IF text # <<>> /\ Head(text) = " " THEN lstrip(Tail(text)) ELSE text

RECURSIVE rstrip(_)
rstrip(text) ==
    IF text # <<>> /\ text[Len(text)] = " " THEN rstrip(SubSeq(text, 1, Len(text) - 1))
    ELSE text

strip(text) == rstrip(lstrip(text))

\* str.split(sep)
split(text, sep) ==
    LET RECURSIVE scan(_, _, _)
        scan(i, part, parts) ==
            IF i > Len(text) THEN Append(parts, part)
            ELSE IF text[i] = sep THEN scan(i + 1, <<>>, Append(parts, part))
            ELSE scan(i + 1, Append(part, text[i]), parts)
    IN scan(1, <<>>, <<>>)

\* the test that drops the keys GROUP and END_GROUP
KeepKey_and(key) == (key # <<"GROUP">>) /\ (key # <<"END_GROUP">>)

\* line 111: (key != "GROUP") or (key != "END_GROUP")
KeepKey(key) == (key # <<"GROUP">>) \/ (key # <<"END_GROUP">>)

\* lines 107-112: the body of the loop for one line of the file
ParseHeaderLine(headerParams, rawLine) ==
    LET line == strip(rawLine)
        lineVals == split(line, "=")
    IN IF line # <<>> /\ Len(lineVals) = 2 /\ KeepKey(strip(lineVals[1]))
       THEN [k \in DOMAIN headerParams \cup {strip(lineVals[1])} |->
                IF k = strip(lineVals[1]) THEN Without(strip(lineVals[2]), Quote)
                ELSE headerParams[k]]
       ELSE headerParams

\* lines 104-105: the file is opened and headerParams is empty
OpenHeader ==
    /\ headerRun.pc = "closed"
    /\ headerRun' = [fn |-> "extractHeaderParameters", pc |-> "reading",
                     lines |-> <<>>, headerParams |-> NoEntries]
    /\ UNCHANGED <<lutVars, dosVars, dtVars, interpVars, aotVars, utilVars, extVars, blockVars, fileVars>>

\* lines 106-112: one more line of the file is read
ReadHeaderLine ==
    /\ headerRun.fn # "none"
    /\ headerRun.pc = "reading"
    /\ Len(headerRun.lines) < MaxHeaderLines
    /\ \E rawLine \in HeaderLines :
        headerRun' = [headerRun EXCEPT
                        !.lines = Append(@, rawLine),
                        !.headerParams = ParseHeaderLine(@, rawLine)]
    /\ UNCHANGED <<lutVars, dosVars, dtVars, interpVars, aotVars, utilVars, extVars, blockVars, fileVars>>

\* line 113: the file has no more lines
CloseHeader ==
    /\ headerRun.fn # "none"
    /\ headerRun.pc = "reading"
    /\ headerRun' = [headerRun EXCEPT !.pc = "closed"]
    /\ UNCHANGED <<lutVars, dosVars, dtVars, interpVars, aotVars, utilVars, extVars, blockVars, fileVars>>

InitHeader ==
    /\ sensor = CHOOSE st \in SensorStates : st.month = 6
    /\ lutRun = NoRun
    /\ lutPrev = NoRun
    /\ dosCall = NoDOSCall
    /\ DarkTargetIdle
    /\ OthersIdle

NextHeader ==
    \/ OpenHeader
    \/ ReadHeaderLine
    \/ CloseHeader

SpecHeader == InitHeader /\ [][NextHeader]_vars

----------------------------------------------------------------------------
(* Claims about header parsing                                             *)

\* the positions of "=" in a line
EqualsAt(rawLine) == {i \in 1..Len(rawLine) : rawLine[i] = "="}

\* the trimmed key of a line with exactly one "="
KeyOf(rawLine) ==
    LET i == CHOOSE e \in EqualsAt(rawLine) : TRUE
    IN strip(SubSeq(rawLine, 1, i - 1))

\* its trimmed value, quotes removed
ValueOf(rawLine) ==
    LET i == CHOOSE e \in EqualsAt(rawLine) : TRUE
        isWord(c) == c # Quote
    IN SelectSeq(strip(SubSeq(rawLine, i + 1, Len(rawLine))), isWord)

\* the lines read so far that are key=value lines with another key than
\* GROUP and END_GROUP
EntryLines(lines) ==
    {n \in 1..Len(lines) :
        /\ Cardinality(EqualsAt(lines[n])) = 1
        /\ KeyOf(lines[n]) \notin {<<"GROUP">>, <<"END_GROUP">>}}

\* C20: the mapping read from the header has no entry under GROUP or
\* END_GROUP, and has exactly the trimmed keys of the other key=value lines
\* (exactly one "="), each with the unquoted trimmed value of its last line.
C20_HeaderParams ==
    headerRun.fn # "none" =>
        LET entries == EntryLines(headerRun.lines)
        IN /\ <<"GROUP">> \notin DOMAIN headerRun.headerParams
           /\ <<"END_GROUP">> \notin DOMAIN headerRun.headerParams
           /\ DOMAIN headerRun.headerParams = {KeyOf(headerRun.lines[n]) : n \in entries}
           /\ \A n \in entries :
                (\A m \in entries :
                    KeyOf(headerRun.lines[m]) = KeyOf(headerRun.lines[n]) => m <= n)
                => headerRun.headerParams[KeyOf(headerRun.lines[n])]
                        = ValueOf(headerRun.lines[n])

----------------------------------------------------------------------------
\* Elevation ranges too narrow for one step (arcsisensor.py 723-759)

\* the elevation range of the last build gives fewer than one step
TooNarrowElevRange ==
    CeilDiv(lutRun.surfaceAltitudeMax - lutRun.surfaceAltitudeMin, ElevStep) + 1 < 1

\* C25: buildElevation6SCoeffLUT and buildElevationAOT6SCoeffLUT raise an
\* error when ceil((surfaceAltitudeMax - surfaceAltitudeMin)/100) + 1 < 1:
\* no build on such a range returns, so no returned LUT is empty.
C25_NarrowElevRangeRaises ==
    lutRun.kind # "none" => ~TooNarrowElevRange

----------------------------------------------------------------------------
\* The returned AOT and the caller's search range (arcsisensor.py 1235-1257)

\* C27: whenever estimateSingleAOTFromDOSBandImpl returns, the AOT it
\* returns lies inside the caller's search range,
\* aotValMin <= aotVal <= aotValMax, whatever the width of the range.
C27_AOTInsideRange ==
    (aotRun.fn # "none" /\ aotRun.outcome = "returned") =>
        /\ aotRun.aotValMin <= aotRun.aotVal
        /\ aotRun.aotVal <= aotRun.aotValMax

----------------------------------------------------------------------------
\* The projected footprint taken from a valid-data mask (arcsisensor.py 354-431)

\* the Projected block of the last metadata call
ProjectedOfCall == utilCall.result.LocationInfo.Projected

\* C28: whenever a valid-data mask is supplied to getJSONDictDefaultMetaData
\* the returned LocationInfo.Projected holds BBOX, CentreX and CentreY,
\* whether the mask has zero, one or several footprint features once the
\* background row and the all-zero rows are dropped; with exactly one
\* feature the box is that feature's extent and the centre its midpoint.
C28_ProjectedFromMask ==
    (utilCall.fn = "getJSONDictDefaultMetaData" /\ utilCall.validMaskImage # "") =>
        /\ {"BBOX", "CentreX", "CentreY"} \subseteq DOMAIN ProjectedOfCall
        /\ \A n \in 2..Len(utilCall.maskTable) :
             ( /\ utilCall.maskTable[n] # AbsentRow
               /\ \A m \in 2..Len(utilCall.maskTable) :
                    m # n => utilCall.maskTable[m] = AbsentRow )
             => ( LET f == utilCall.maskTable[n]
                      b == ProjectedOfCall.BBOX
                  IN /\ b.TLX = f.MinXX /\ b.BLX = f.MinXX
                     /\ b.TRX = f.MaxXX /\ b.BRX = f.MaxXX
                     /\ b.TLY = f.MaxYY /\ b.TRY = f.MaxYY
                     /\ b.BLY = f.MinYY /\ b.BRY = f.MinYY
                     /\ ProjectedOfCall.CentreX = <<f.MinXX + f.MaxXX, 2>>
                     /\ ProjectedOfCall.CentreY = <<f.MinYY + f.MaxYY, 2>> )

----------------------------------------------------------------------------
\* The representative dark object of the AOT estimate (arcsisensor.py 1203-1220)

\* the rows of the labelled clumps (id >= 1) of the table of the last call
LabelledRows == 2..Len(aotRun.rat)

\* C26: the mean TOA reflectance, mean radiance and mean elevation used for
\* the AOT search are read from one row of the attribute table, and that
\* row is the labelled clump (id >= 1, never the background row of id 0)
\* of the largest pixel count, the first such row when several share it.
C26_RepresentativeTarget ==
    aotRun.fn # "none" =>
        \E r \in LabelledRows :
            /\ \A q \in LabelledRows : aotRun.rat[q].Histogram <= aotRun.rat[r].Histogram
            /\ \A q \in LabelledRows :
                    q < r => aotRun.rat[q].Histogram < aotRun.rat[r].Histogram
            /\ aotRun.radVal = aotRun.rat[r].MeanRad
            /\ aotRun.elevVal = aotRun.rat[r].MeanElev
            /\ aotRun.reflDOS[1] =
                    IF aotRun.rat[r].MeanTOARefl - aotRun.bandOff < aotRun.dosOutRefl
                    THEN aotRun.dosOutRefl
                    ELSE aotRun.rat[r].MeanTOARefl - aotRun.bandOff


----------------------------------------------------------------------------
(* extractHeaderParameters of the Landsat 1 MSS sensor after the header    *)
(* lines are read (arcsisensorlandsat1mss.py 114-212)                      *)
(*                                                                         *)
(* headerParams is the dictionary the reading loop leaves: a function from *)
(* the keys present to their values.  Numbers stand for the texts float()  *)
(* and int() convert.  The result of a stage is the object as the stage    *)
(* left it with the outcome "ok", or the exception it raised.              *)

\* the ways a header departs from a well-formed Landsat 1 MSS header
Defects ==
    {"craft", "sensor", "projection", "datum", "ellipsoid",
     "xBL", "yTR", "xBR", "yBR", "noRow", "zone"}

\* how many departures one header combines
MaxDefects == 2

\* the footprints of the headers: west, east, south, north
Footprint == <<100, 400, 500, 900>>
OtherFootprint == <<1, 4, 5, 10>>

\* epsgCodes of arcsisensor.py 145-265 has the zones 1 to 60
UTMZones == 1..60

\* a header file's dictionary
HeaderDict(fp, d) ==
    [SPACECRAFT_ID |-> IF "craft" \in d THEN "LANDSAT_2" ELSE "LANDSAT_1",
     SENSOR_ID |-> IF "sensor" \in d THEN "TM" ELSE "MSS",
     WRS_ROW |-> 24, WRS_PATH |-> 204,
     DATE_ACQUIRED |-> "1972-11-03", SCENE_CENTER_TIME |-> "10:59:30.5",
     SUN_ELEVATION |-> 25, SUN_AZIMUTH |-> 150,
     CORNER_UL_LAT_PRODUCT |-> 53, CORNER_UL_LON_PRODUCT |-> -4,
     CORNER_UR_LAT_PRODUCT |-> 53, CORNER_UR_LON_PRODUCT |-> -2,
     CORNER_LL_LAT_PRODUCT |-> 51, CORNER_LL_LON_PRODUCT |-> -4,
     CORNER_LR_LAT_PRODUCT |-> 51, CORNER_LR_LON_PRODUCT |-> -2,
     CORNER_UL_PROJECTION_X_PRODUCT |-> fp[1],
     CORNER_UL_PROJECTION_Y_PRODUCT |-> fp[4],
     CORNER_UR_PROJECTION_X_PRODUCT |-> fp[2],
     CORNER_UR_PROJECTION_Y_PRODUCT |-> IF "yTR" \in d THEN fp[4] + 1 ELSE fp[4],
     CORNER_LL_PROJECTION_X_PRODUCT |-> IF "xBL" \in d THEN fp[1] + 1 ELSE fp[1],
     CORNER_LL_PROJECTION_Y_PRODUCT |-> fp[3],
     CORNER_LR_PROJECTION_X_PRODUCT |-> IF "xBR" \in d THEN fp[2] - 1 ELSE fp[2],
     CORNER_LR_PROJECTION_Y_PRODUCT |-> IF "yBR" \in d THEN fp[3] - 1 ELSE fp[3],
     MAP_PROJECTION |-> IF "projection" \in d THEN "PS" ELSE "UTM",
     DATUM |-> IF "datum" \in d THEN "NAD27" ELSE "WGS84",
     ELLIPSOID |-> IF "ellipsoid" \in d THEN "GRS80" ELSE "WGS84",
     UTM_ZONE |-> IF "zone" \in d THEN 61 ELSE 30,
     FILE_NAME_BAND_4 |-> "b4.tif",
     FILE_NAME_BAND_5 |-> "b5.tif",
     FILE_NAME_BAND_6 |-> "b6.tif",
     FILE_NAME_BAND_7 |-> "b7.tif",
     QUANTIZE_CAL_MIN_BAND_4 |-> 1, QUANTIZE_CAL_MAX_BAND_4 |-> 255,
     QUANTIZE_CAL_MIN_BAND_5 |-> 1, QUANTIZE_CAL_MAX_BAND_5 |-> 255,
     QUANTIZE_CAL_MIN_BAND_6 |-> 1, QUANTIZE_CAL_MAX_BAND_6 |-> 255,
     QUANTIZE_CAL_MIN_BAND_7 |-> 1, QUANTIZE_CAL_MAX_BAND_7 |-> 255,
     RADIANCE_MINIMUM_BAND_4 |-> 4, RADIANCE_MAXIMUM_BAND_4 |-> 40,
     RADIANCE_MINIMUM_BAND_5 |-> 5, RADIANCE_MAXIMUM_BAND_5 |-> 50,
     RADIANCE_MINIMUM_BAND_6 |-> 6, RADIANCE_MAXIMUM_BAND_6 |-> 60,
     RADIANCE_MINIMUM_BAND_7 |-> 7, RADIANCE_MAXIMUM_BAND_7 |-> 70]

\* a dictionary without one of its keys
DropKey(h, key) == [k \in DOMAIN h \ {key} |-> h[k]]

\* the headers offered to extractHeaderParameters: one footprint with up to
\* MaxDefects departures, and a well-formed header of another footprint
HeaderDicts ==
    {IF "noRow" \in d THEN DropKey(HeaderDict(Footprint, d), "WRS_ROW")
                      ELSE HeaderDict(Footprint, d) :
        d \in {e \in SUBSET Defects : Cardinality(e) <= MaxDefects}}
    \cup {HeaderDict(OtherFootprint, {})}

Raised(self, exception, message) ==
    [self |-> self, outcome |-> exception, message |-> message]

Passed(self) == [self |-> self, outcome |-> "ok", message |-> ""]

\* self.field = headerParams[key] for each <<field, key>> in turn; a key
\* that is not there raises KeyError and leaves the later fields alone
RECURSIVE AssignAll(_, _, _)
AssignAll(self, headerParams, todo) ==
    IF todo = <<>> THEN Passed(self)
    ELSE IF Head(todo)[2] \notin DOMAIN headerParams
         THEN Raised(self, "KeyError", Head(todo)[2])
         ELSE AssignAll([self EXCEPT ![Head(todo)[1]] = headerParams[Head(todo)[2]]],
                        headerParams, Tail(todo))

\* line 116
RecognisedSensor(headerParams) ==
    headerParams["SPACECRAFT_ID"] = "LANDSAT_1" /\ headerParams["SENSOR_ID"] = "MSS"

\* lines 116-119; the and of line 116 reads SENSOR_ID only when the
\* spacecraft is LANDSAT_1
CheckSensor(self, headerParams) ==
    IF "SPACECRAFT_ID" \notin DOMAIN headerParams
    THEN Raised(self, "KeyError", "SPACECRAFT_ID")
    ELSE IF headerParams["SPACECRAFT_ID"] = "LANDSAT_1" /\ "SENSOR_ID" \notin DOMAIN headerParams
    THEN Raised(self, "KeyError", "SENSOR_ID")
    ELSE IF RecognisedSensor(headerParams)
    THEN Passed([self EXCEPT !.sensor = "LS1MSS"])
    ELSE Raised(self, "ARCSIException",
                "Do no recognise the spacecraft and sensor or combination.")

\* lines 122-123
ReadRowPath(self, headerParams) ==
    AssignAll(self, headerParams, <<<<"row", "WRS_ROW">>, <<"path", "WRS_PATH">>>>)

\* lines 126-129
ReadAcquisitionTime(self, headerParams) ==
    IF "DATE_ACQUIRED" \notin DOMAIN headerParams
    THEN Raised(self, "KeyError", "DATE_ACQUIRED")
    ELSE IF "SCENE_CENTER_TIME" \notin DOMAIN headerParams
    THEN Raised(self, "KeyError", "SCENE_CENTER_TIME")
    ELSE Passed([self EXCEPT !.acquisitionTime =
                    [date |-> headerParams["DATE_ACQUIRED"],
                     time |-> headerParams["SCENE_CENTER_TIME"]]])

\* lines 131-132
ReadSun(self, headerParams) ==
    IF "SUN_ELEVATION" \notin DOMAIN headerParams
    THEN Raised(self, "KeyError", "SUN_ELEVATION")
    ELSE AssignAll([self EXCEPT !.solarZenith = 90 - headerParams["SUN_ELEVATION"]],
                   headerParams, <<<<"solarAzimuth", "SUN_AZIMUTH">>>>)

\* lines 135-152
ReadCorners(self, headerParams) ==
    AssignAll(self, headerParams,
        <<<<"latTL", "CORNER_UL_LAT_PRODUCT">>, <<"lonTL", "CORNER_UL_LON_PRODUCT">>,
          <<"latTR", "CORNER_UR_LAT_PRODUCT">>, <<"lonTR", "CORNER_UR_LON_PRODUCT">>,
          <<"latBL", "CORNER_LL_LAT_PRODUCT">>, <<"lonBL", "CORNER_LL_LON_PRODUCT">>,
          <<"latBR", "CORNER_LR_LAT_PRODUCT">>, <<"lonBR", "CORNER_LR_LON_PRODUCT">>,
          <<"xTL", "CORNER_UL_PROJECTION_X_PRODUCT">>, <<"yTL", "CORNER_UL_PROJECTION_Y_PRODUCT">>,
          <<"xTR", "CORNER_UR_PROJECTION_X_PRODUCT">>, <<"yTR", "CORNER_UR_PROJECTION_Y_PRODUCT">>,
          <<"xBL", "CORNER_LL_PROJECTION_X_PRODUCT">>, <<"yBL", "CORNER_LL_PROJECTION_Y_PRODUCT">>,
          <<"xBR", "CORNER_LR_PROJECTION_X_PRODUCT">>, <<"yBR", "CORNER_LR_PROJECTION_Y_PRODUCT">>>>)

\* line 156
SupportedProjection(headerParams) ==
    /\ headerParams["MAP_PROJECTION"] = "UTM"
    /\ headerParams["DATUM"] = "WGS84"
    /\ headerParams["ELLIPSOID"] = "WGS84"

\* lines 155-162; epsgCodes[utmCode] raises KeyError for a zone it has not
CheckProjection(self, headerParams) ==
    IF "MAP_PROJECTION" \notin DOMAIN headerParams
    THEN Raised(self, "KeyError", "MAP_PROJECTION")
    ELSE IF headerParams["MAP_PROJECTION"] = "UTM" /\ "DATUM" \notin DOMAIN headerParams
    THEN Raised(self, "KeyError", "DATUM")
    ELSE IF /\ headerParams["MAP_PROJECTION"] = "UTM"
            /\ headerParams["DATUM"] = "WGS84"
            /\ "ELLIPSOID" \notin DOMAIN headerParams
    THEN Raised(self, "KeyError", "ELLIPSOID")
    ELSE IF ~SupportedProjection(headerParams)
    THEN Raised(self, "ARCSIException",
                "Expecting Landsat to be projected in UTM with datum=WGS84 and ellipsoid=WGS84.")
    ELSE IF "UTM_ZONE" \notin DOMAIN headerParams
    THEN Raised(self, "KeyError", "UTM_ZONE")
    ELSE IF headerParams["UTM_ZONE"] \notin UTMZones
    THEN Raised(self, "KeyError", "utmCode")
    ELSE Passed(self)

\* the test that leaves the bottom edge out
IsSquare_noBottom(self) ==
    self.xTL = self.xBL /\ self.yTL = self.yTR /\ self.xTR = self.xBR

\* line 165
IsSquare(self) ==
    self.xTL = self.xBL /\ self.yTL = self.yTR /\ self.xTR = self.xBR /\ self.yBL = self.yBR

\* lines 165-166
CheckSquare(self) ==
    IF ~IsSquare(self)
    THEN Raised(self, "ARCSIException", "Image is not square in projected coordinates.")
    ELSE Passed(self)

\* lines 168-182: the centre, and the centre point taken from the UTM zone
\* of the header to WGS84
SetCentre(self, headerParams) ==
    LET xCentre == <<2 * self.xTL + (self.xTR - self.xTL), 2>>
        yCentre == <<2 * self.yBR + (self.yTL - self.yBR), 2>>
        point == [zone |-> headerParams["UTM_ZONE"], x |-> xCentre, y |-> yCentre]
    IN Passed([self EXCEPT !.xCentre = xCentre, !.yCentre = yCentre,
                           !.latCentre = [GetY |-> point], !.lonCentre = [GetX |-> point]])

\* lines 186-209
ReadBands(self, headerParams, filesDIR) ==
    LET joined == [k \in DOMAIN headerParams |-> <<filesDIR, headerParams[k]>>]
        files == AssignAll(self, joined,
                    <<<<"band4File", "FILE_NAME_BAND_4">>, <<"band5File", "FILE_NAME_BAND_5">>,
                      <<"band6File", "FILE_NAME_BAND_6">>, <<"band7File", "FILE_NAME_BAND_7">>>>)
    IN IF files.outcome # "ok" THEN files
       ELSE AssignAll(files.self, headerParams,
              <<<<"b4CalMin", "QUANTIZE_CAL_MIN_BAND_4">>, <<"b4CalMax", "QUANTIZE_CAL_MAX_BAND_4">>,
              <<"b5CalMin", "QUANTIZE_CAL_MIN_BAND_5">>, <<"b5CalMax", "QUANTIZE_CAL_MAX_BAND_5">>,
              <<"b6CalMin", "QUANTIZE_CAL_MIN_BAND_6">>, <<"b6CalMax", "QUANTIZE_CAL_MAX_BAND_6">>,
              <<"b7CalMin", "QUANTIZE_CAL_MIN_BAND_7">>, <<"b7CalMax", "QUANTIZE_CAL_MAX_BAND_7">>,
              <<"b4MinRad", "RADIANCE_MINIMUM_BAND_4">>, <<"b4MaxRad", "RADIANCE_MAXIMUM_BAND_4">>,
              <<"b5MinRad", "RADIANCE_MINIMUM_BAND_5">>, <<"b5MaxRad", "RADIANCE_MAXIMUM_BAND_5">>,
              <<"b6MinRad", "RADIANCE_MINIMUM_BAND_6">>, <<"b6MaxRad", "RADIANCE_MAXIMUM_BAND_6">>,
              <<"b7MinRad", "RADIANCE_MINIMUM_BAND_7">>, <<"b7MaxRad", "RADIANCE_MAXIMUM_BAND_7">>>>)

\* lines 98-212: the stages in turn, each entered when the one before it
\* raised nothing; the except clause of line 211 raises the exception again
ExtractHeaderParameters ==
    \E headerParams \in HeaderDicts, filesDIR \in {"scene"} :
    \E r1 \in {CheckSensor(ls1, headerParams)} :
    \E r2 \in {IF r1.outcome = "ok" THEN ReadRowPath(r1.self, headerParams) ELSE r1} :
    \E r3 \in {IF r2.outcome = "ok" THEN ReadAcquisitionTime(r2.self, headerParams) ELSE r2} :
    \E r4 \in {IF r3.outcome = "ok" THEN ReadSun(r3.self, headerParams) ELSE r3} :
    \E r5 \in {IF r4.outcome = "ok" THEN ReadCorners(r4.self, headerParams) ELSE r4} :
    \E r6 \in {IF r5.outcome = "ok" THEN CheckProjection(r5.self, headerParams) ELSE r5} :
    \E r7 \in {IF r6.outcome = "ok" THEN CheckSquare(r6.self) ELSE r6} :
    \E r8 \in {IF r7.outcome = "ok" THEN SetCentre(r7.self, headerParams) ELSE r7} :
    \E r9 \in {IF r8.outcome = "ok" THEN ReadBands(r8.self, headerParams, filesDIR) ELSE r8} :
        /\ ls1' = r9.self
        /\ extractCall' = [fn |-> "extractHeaderParameters", headerParams |-> headerParams,
                           outcome |-> IF r9.outcome = "ok" THEN "returned" ELSE r9.outcome,
                           message |-> r9.message]
        /\ UNCHANGED <<lutVars, dosVars, dtVars, interpVars, aotVars, utilVars, hdrVars,
                       blockVars, fileVars>>

InitExtract ==
    /\ sensor = CHOOSE st \in SensorStates : st.month = 6
    /\ lutRun = NoRun
    /\ lutPrev = NoRun
    /\ dosCall = NoDOSCall
    /\ DarkTargetIdle
    /\ OthersIdle

NextExtract == ExtractHeaderParameters

SpecExtract == InitExtract /\ [][NextExtract]_vars

----------------------------------------------------------------------------
(* Claims about extractHeaderParameters                                    *)

\* the header of the last call holds every key the method reads, and a UTM
\* zone the EPSG table has
CompleteHeader ==
    /\ DOMAIN HeaderDict(<<0, 0, 0, 0>>, {}) \subseteq DOMAIN extractCall.headerParams
    /\ extractCall.headerParams["UTM_ZONE"] \in 1..60

\* the three format tests on the header of the last call
SensorIsLandsat1MSS ==
    /\ "SPACECRAFT_ID" \in DOMAIN extractCall.headerParams
    /\ "SENSOR_ID" \in DOMAIN extractCall.headerParams
    /\ extractCall.headerParams["SPACECRAFT_ID"] = "LANDSAT_1"
    /\ extractCall.headerParams["SENSOR_ID"] = "MSS"

ProjectionIsUTMWGS84 ==
    /\ {"MAP_PROJECTION", "DATUM", "ELLIPSOID"} \subseteq DOMAIN extractCall.headerParams
    /\ extractCall.headerParams["MAP_PROJECTION"] = "UTM"
    /\ extractCall.headerParams["DATUM"] = "WGS84"
    /\ extractCall.headerParams["ELLIPSOID"] = "WGS84"

FootprintIsRectangle ==
    LET h == extractCall.headerParams
    IN /\ h["CORNER_UL_PROJECTION_X_PRODUCT"] = h["CORNER_LL_PROJECTION_X_PRODUCT"]
       /\ h["CORNER_UL_PROJECTION_Y_PRODUCT"] = h["CORNER_UR_PROJECTION_Y_PRODUCT"]
       /\ h["CORNER_UR_PROJECTION_X_PRODUCT"] = h["CORNER_LR_PROJECTION_X_PRODUCT"]
       /\ h["CORNER_LL_PROJECTION_Y_PRODUCT"] = h["CORNER_LR_PROJECTION_Y_PRODUCT"]

C23_SensorStateInvariant ==
    /\ ls1.xTL = ls1.xBL /\ ls1.yTL = ls1.yTR /\ ls1.xTR = ls1.xBR /\ ls1.yBL = ls1.yBR
    /\ ls1.xCentre[1] * 2 = (ls1.xTL + ls1.xBR) * ls1.xCentre[2]
    /\ ls1.yCentre[1] * 2 = (ls1.yTL + ls1.yBR) * ls1.yCentre[2]

----------------------------------------------------------------------------
(* findDOSLocalDarkTargets: the block-wise candidate mask                  *)
(* (arcsisensor.py 988-1036)                                               *)
(*                                                                         *)
(* A block is the sequence of the pixels of one band of one window of the  *)
(* reader; the bands of a window are treated alike and independently.      *)
(* Pixel values are in 1/PixelUnit, so that images of whole numbers and    *)
(* images of fractions are both there; a bin edge is the rational          *)
(* <<numerator, denominator>> in the same unit.                            *)

\* the scale of the pixel values
PixelUnit == 8

\* how many windows the reader yields
MaxBlocks == 2

\* blockSize of the caller: a window has blockSize * blockSize pixels
BlockSizes == {4}

\* the nonzero pixel values: 0.5, 1.375, 4 and 7.5
BlockVals == <<4, 11, 32, 60>>

\* how often a value occurs in a window
BlockCounts == {0, 1, 4}

HistBinWidths == {1, 2}

\* darkPxlPercentile as a rational in (0, 1)
DarkPxlPercentiles == {<<1, 8>>, <<1, 2>>}

\* numpy.histogram given a bins that is no int: the numpy of the time of the
\* code truncates it, a later numpy raises TypeError
NumpyBuilds == {"truncates", "TypeError"}

RECURSIVE Repeat(_, _)
Repeat(v, n) == IF n <= 0 THEN <<>> ELSE <<v>> \o Repeat(v, n - 1)

\* the windows the reader yields: the values in ascending order, zeros after
Blocks(blockSize) ==
    {Repeat(BlockVals[1], c[1]) \o Repeat(BlockVals[2], c[2])
        \o Repeat(BlockVals[3], c[3]) \o Repeat(BlockVals[4], c[4])
        \o Repeat(0, blockSize * blockSize - (c[1] + c[2] + c[3] + c[4])) :
     c \in [1..4 -> BlockCounts]}

\* numpy.min
numpy_min(col) ==
    CHOOSE v \in {col[i] : i \in 1..Len(col)} : \A i \in 1..Len(col) : v <= col[i]

\* line 1001: data[data != 0]
NonZero(v) == v # 0

\* line 999: (maxVal - minVal) > 5
DynamicRange(values) == numpy_max(values) - numpy_min(values) > 5 * PixelUnit

\* line 1007: data.shape[0] > ((blockSize*blockSize)*0.1)
EnoughData(data, blockSize) == 10 * Len(data) > blockSize * blockSize

\* line 1006: math.ceil(maxVal - minVal) / histBinWidth + 1, a true division:
\* the rational <<numerator, binWidth>>
numBins(data, binWidth) ==
    <<CeilDiv(numpy_max(data) - numpy_min(data), PixelUnit) + binWidth, binWidth>>

\* the range numpy.histogram bins: it widens an empty range by a half either way
HistRange(data) ==
    IF numpy_min(data) = numpy_max(data)
    THEN <<numpy_min(data) - PixelUnit \div 2, numpy_max(data) + PixelUnit \div 2>>
    ELSE <<numpy_min(data), numpy_max(data)>>

\* histoBins[k] of bins equal bins over range
histoBins(range, bins, k) == <<range[1] * bins + k * (range[2] - range[1]), bins>>

\* a comparison of a pixel value with an edge
AtMost(v, edge) == v * edge[2] <= edge[1]

\* line 1022: (block[i] <= threshold) & (block[i] > 0)
Marked(v, threshold) == AtMost(v, threshold) /\ v > 0

\* numpy.histogram: bin n (from 0) is half-open, the last bin is closed
histo(data, range, bins, n) ==
    LET inBin(v) ==
            /\ v * bins >= histoBins(range, bins, n)[1]
            /\ (v * bins < histoBins(range, bins, n + 1)[1]
                \/ (n + 1 = bins /\ v * bins = histoBins(range, bins, n + 1)[1]))
    IN Len(SelectSeq(data, inBin))

\* line 1011: math.floor(numValues * darkPxlPercentile)
numValsPercentile(numValues, percentile) ==
    (numValues * percentile[1]) \div percentile[2]

\* lines 1015-1021: the threshold is the upper edge of the last bin that fits
LocalThreshold(data, range, bins, percentile) ==
    LET limit == numValsPercentile(Len(data), percentile)
        RECURSIVE loop(_, _, _)
        loop(n, binValCount, threshold) ==
            IF n >= bins THEN threshold
            ELSE IF binValCount + histo(data, range, bins, n) > limit THEN threshold
            ELSE loop(n + 1, binValCount + histo(data, range, bins, n),
                      histoBins(range, bins, n + 1))
    IN loop(0, 0, <<0, 1>>)

NoThreshold == <<0, 1>>

\* lines 989-990
OpenBlockReader ==
    /\ blockRun.pc # "reading"
    /\ \E blockSize \in BlockSizes, binWidth \in HistBinWidths,
          percentile \in DarkPxlPercentiles, numpy \in NumpyBuilds :
        blockRun' = [fn |-> "findDOSLocalDarkTargets", pc |-> "reading",
                     blockSize |-> blockSize, histBinWidth |-> binWidth,
                     darkPxlPercentile |-> percentile, numpy |-> numpy,
                     blocks |-> 0, block |-> <<>>, out |-> <<>>,
                     thresholded |-> FALSE, threshold |-> NoThreshold]
    /\ UNCHANGED <<lutVars, dosVars, dtVars, interpVars, aotVars, utilVars, hdrVars,
                   extVars, fileVars>>

\* lines 991-1034: one window of the reader, one band of it
ThresholdBlock ==
    /\ blockRun.pc = "reading"
    /\ blockRun.blocks < MaxBlocks
    /\ \E block \in Blocks(blockRun.blockSize) :
       \E data \in {SelectSeq(block, NonZero)} :
        IF ~DynamicRange(block) \/ ~EnoughData(data, blockRun.blockSize)
        THEN blockRun' = [blockRun EXCEPT !.block = block, !.blocks = @ + 1,
                                          !.out = [px \in 1..Len(block) |-> 0],
                                          !.thresholded = FALSE,
                                          !.threshold = NoThreshold]
        ELSE \E nb \in {numBins(data, blockRun.histBinWidth)} :
             IF blockRun.numpy = "TypeError"
             THEN blockRun' = [blockRun EXCEPT !.pc = "TypeError", !.block = block,
                                               !.out = <<>>,
                                               !.thresholded = FALSE,
                                               !.threshold = NoThreshold]
             ELSE \E threshold \in {LocalThreshold(data, HistRange(data), nb[1] \div nb[2],
                                                   blockRun.darkPxlPercentile)} :
                  blockRun' = [blockRun EXCEPT
                                  !.block = block, !.blocks = @ + 1,
                                  !.out = [px \in 1..Len(block) |->
                                            IF Marked(block[px], threshold) THEN 1 ELSE 0],
                                  !.thresholded = TRUE,
                                  !.threshold = threshold]
    /\ UNCHANGED <<lutVars, dosVars, dtVars, interpVars, aotVars, utilVars, hdrVars,
                   extVars, fileVars>>

\* line 1036
CloseBlockWriter ==
    /\ blockRun.pc = "reading"
    /\ blockRun.blocks >= 1
    /\ blockRun' = [blockRun EXCEPT !.pc = "closed"]
    /\ UNCHANGED <<lutVars, dosVars, dtVars, interpVars, aotVars, utilVars, hdrVars,
                   extVars, fileVars>>

InitBlock ==
    /\ sensor = CHOOSE st \in SensorStates : st.month = 6
    /\ lutRun = NoRun
    /\ lutPrev = NoRun
    /\ dosCall = NoDOSCall
    /\ DarkTargetIdle
    /\ OthersIdle

NextBlock ==
    \/ OpenBlockReader
    \/ ThresholdBlock
    \/ CloseBlockWriter

SpecBlock == InitBlock /\ [][NextBlock]_vars

----------------------------------------------------------------------------
(* Claims about findDOSLocalDarkTargets                                    *)

\* a window has been thresholded and its mask written
WrittenBlock ==
    blockRun.fn # "none" /\ blockRun.pc # "TypeError" /\ blockRun.block # <<>>

MarkedPixels == {px \in 1..Len(blockRun.out) : blockRun.out[px] = 1}

NonZeroPixels == {px \in 1..Len(blockRun.block) : blockRun.block[px] # 0}

\* the two tests of the window: max - min > 5, and more than 10% of
\* blockSize * blockSize pixels nonzero
BlockPassesTests ==
    /\ \E a, b \in 1..Len(blockRun.block) :
            blockRun.block[a] - blockRun.block[b] > 5 * 8
    /\ 10 * Cardinality(NonZeroPixels) > blockRun.blockSize * blockRun.blockSize

----------------------------------------------------------------------------
(* The image files of the operations that keep intermediates               *)
(* (arcsisensor.py 654-680, 764-986, 1038-1114, 1166-1257)                 *)
(*                                                                         *)
(* An operation is the sequence of the library calls it makes.  A call     *)
(* reads a band of an input image (0 when it reads none), writes files and,*)
(* for the Delete calls under "if not self.debugMode", deletes files.  Any *)
(* call but a Delete may raise; the except clause of the operation raises  *)
(* the exception again.                                                    *)

\* the bands of inputTOAImage
MaxBands == 2

\* a file: its directory argument, the suffix of its name, the band in it
File(dir, suffix, b) == <<dir, suffix, b>>

tmpDarkPxlsImg == File("tmpPath", "_darkpxls", 0)
tmpDarkPxlsClumpsImg == File("tmpPath", "_darkclumps", 0)
tmpDarkPxlsClumpsRMSmallImg == File("tmpPath", "_darkclumpsrmsmall", 0)
tmpDarkObjsImg == File("tmpPath", "_darkobjs", 0)
tmpDarkTargetAllImage == File("tmpPath", "_darkpxls_allbands", 0)
dosBandFile == File("tmpPath", "_simbanddos", 0)
darkROIMask == File("tmpPath", "_darkROIMask", 0)
darkROIMaskClumps == File("tmpPath", "_darkROIMaskClumps", 0)
darkROIMaskClumpsRMSmall == File("tmpPath", "_darkROIMaskClumpsRMSmall", 0)
darkROIMaskClumpsFinal == File("tmpPath", "_darkROIMaskClumpsFinal", 0)
outputTmpFile == File("tmpPath", "_toposhadow_tmp", 0)

\* lines 862-865, 900-903: the temporaries of the dark-target search
darkTargetTemps ==
    {tmpDarkPxlsImg, tmpDarkPxlsClumpsImg, tmpDarkPxlsClumpsRMSmallImg, tmpDarkObjsImg}

\* lines 976-980, 1103-1107: with the block-wise candidate mask
localDarkTargetTemps == darkTargetTemps \cup {tmpDarkTargetAllImage}

\* lines 1229-1233: the temporaries of the AOT estimate
darkROITemps ==
    {dosBandFile, darkROIMask, darkROIMaskClumps, darkROIMaskClumpsRMSmall,
     darkROIMaskClumpsFinal}

\* a file of the output directory that no operation writes
OtherFile == File("outputPath", "_rad", 0)

\* a call: its name, the band it reads, the files it writes and deletes
Step(call, b, writes) == <<call, b, writes, {}>>

Call(step) == step[1]
Band(step) == step[2]
Writes(step) == step[3]
Deletes(step) == step[4]

\* the gdalDriver.Delete calls of one "if not self.debugMode" block
Cleanup(files) == <<"Delete", 0, {}, files>>

\* lines 764-836; the passes of the while loop write the same files
calcDarkTargetOffsetsForBand(b, offsetImage) ==
    <<Step("getHistogram", b, {}),
      Step("bandMath", b, {tmpDarkPxlsImg}),
      Step("clump", 0, {tmpDarkPxlsClumpsImg}),
      Step("rmSmallClumps", 0, {tmpDarkPxlsClumpsRMSmallImg}),
      Step("relabelClumps", 0, {tmpDarkObjsImg}),
      Step("populateRATWithStats", b, {}),
      Step("selectClumpsOnGrid", 0, {}),
      Step("interpolateImageFromPointData", 0, {offsetImage})>>

\* lines 851-854: for band in range(numBands), from band on
RECURSIVE GlobalOffsetsFrom(_, _)
GlobalOffsetsFrom(b, numBands) ==
    IF b >= numBands THEN <<>>
    ELSE calcDarkTargetOffsetsForBand(b + 1, File("tmpPath", "_darktargetoffs_b", b + 1))
            \o GlobalOffsetsFrom(b + 1, numBands)

\* lines 852, 1079: bandDarkTargetOffsetImages
bandDarkTargetOffsetImages(numBands) ==
    {File("tmpPath", "_darktargetoffs_b", b + 1) : b \in 0..(numBands - 1)}

\* lines 838-872
findPerBandDarkTargetsOffsets(numBands) ==
    GlobalOffsetsFrom(0, numBands)
        \o <<Step("stackImageBands", 0, {File("outputPath", "_dosuboffs", 0)}),
             Cleanup(darkTargetTemps \cup bandDarkTargetOffsetImages(numBands))>>

\* lines 898-903
performDOSCleanup == Cleanup(darkTargetTemps)

\* lines 874-908
performDOSOnSingleBand(b) ==
    calcDarkTargetOffsetsForBand(b, File("outputPath", "_darktargetoffs_b", b))
        \o <<Step("bandMath", b, {File("outputPath", "DOS", 0)}),
             performDOSCleanup>>

\* line 932: BandAttStats(band=(band+1), ...)
localStatsBand(b) == b + 1

\* lines 910-986
performLocalDOSOnSingleBand(b) ==
    <<Step("findDOSLocalDarkTargets", 0, {tmpDarkTargetAllImage}),
      Step("selectImageBands", b, {tmpDarkPxlsImg}),
      Step("clump", 0, {tmpDarkPxlsClumpsImg}),
      Step("rmSmallClumps", 0, {tmpDarkPxlsClumpsRMSmallImg}),
      Step("relabelClumps", 0, {tmpDarkObjsImg}),
      Step("populateRATWithStats", localStatsBand(b), {}),
      Step("selectClumpsOnGrid", 0, {}),
      Step("interpolateImageFromPointData", 0, {File("tmpPath", "_darktargetoffs_b", b)}),
      Step("bandMath", b, {File("outputPath", "DOS", 0)}),
      Cleanup(localDarkTargetTemps \cup {File("tmpPath", "_darktargetoffs_b", b)})>>

\* lines 1054-1095: for band in range(numBands), from band on
RECURSIVE LocalOffsetsFrom(_, _)
LocalOffsetsFrom(b, numBands) ==
    IF b >= numBands THEN <<>>
    ELSE <<Step("selectImageBands", b + 1, {tmpDarkPxlsImg}),
           Step("clump", 0, {tmpDarkPxlsClumpsImg}),
           Step("rmSmallClumps", 0, {tmpDarkPxlsClumpsRMSmallImg}),
           Step("relabelClumps", 0, {tmpDarkObjsImg}),
           Step("populateRATWithStats", b + 1, {}),
           Step("selectClumpsOnGrid", 0, {}),
           Step("interpolateImageFromPointData", 0,
                {File("tmpPath", "_darktargetoffs_b", b + 1)})>>
            \o LocalOffsetsFrom(b + 1, numBands)

\* lines 1038-1114
findPerBandLocalDarkTargetsOffsets(numBands) ==
    <<Step("findDOSLocalDarkTargets", 0, {tmpDarkTargetAllImage})>>
        \o LocalOffsetsFrom(0, numBands)
        \o <<Step("stackImageBands", 0, {File("outputPath", "_dosuboffs", 0)}),
             Cleanup(localDarkTargetTemps \cup bandDarkTargetOffsetImages(numBands))>>

\* lines 654-680
generateTopoDirectShadowMask ==
    <<Step("gdal.Open", 1, {}),
      Step("GetMaximum", 1, {}),
      Step("shadowmask", 1, {outputTmpFile}),
      Step("applyMedianFilter", 0, {File("outputPath", "_toposhadow", 0)}),
      Cleanup({outputTmpFile})>>

\* lines 1166-1257: the Delete calls of lines 1227-1233 come before the
\* search of lines 1235-1254
estimateSingleAOTFromDOSBandImpl(imgBand) ==
    <<Step("convertImageBandToReflectanceSimpleDarkSubtract", imgBand, {dosBandFile}),
      Step("bandMath", 1, {darkROIMask}),
      Step("clump", 0, {darkROIMaskClumps}),
      Step("rmSmallClumps", 0, {darkROIMaskClumpsRMSmall}),
      Step("relabelClumps", 0, {darkROIMaskClumpsFinal}),
      Step("populateRATWithStats", imgBand, {}),
      Step("populateRATWithStats", imgBand, {}),
      Step("populateRATWithStats", 1, {}),
      Cleanup(darkROITemps),
      Step("numAOTValTests", 0, {}),
      Step("run6SToOptimiseAODValue", 0, {})>>

\* the file an operation returns: the one it writes last
OutputImage(steps) ==
    LET writing == {i \in 1..Len(steps) : Writes(steps[i]) # {}}
        last == CHOOSE i \in writing : \A j \in writing : j <= i
    IN CHOOSE f \in Writes(steps[last]) : TRUE

\* estimateSingleAOTFromDOSBandImpl returns an AOT value and no file
NoFile == File("", "", 0)

\* the calls that may raise; 0 stands for a run in which none does
FailPoints(steps) == {0} \cup {i \in 1..Len(steps) : Call(steps[i]) # "Delete"}

\* the files as the run of an operation leaves them: the calls run in turn
\* up to the one that raises, and a file is there afterwards when the last
\* call that touched it wrote it, or when none did and it was there before
RunSteps(steps, debugMode, failAt, before) ==
    LET ran == IF failAt = 0 THEN 1..Len(steps) ELSE 1..(failAt - 1)
        created == UNION {Writes(steps[i]) : i \in ran}
        deleted == IF debugMode THEN {} ELSE UNION {Deletes(steps[i]) : i \in ran}
        touched(f) == {i \in ran : f \in Writes(steps[i])
                                        \/ (~debugMode /\ f \in Deletes(steps[i]))}
        last(f) == CHOOSE i \in touched(f) : \A j \in touched(f) : j <= i
    IN [files |-> {f \in before \cup created :
                        IF touched(f) = {} THEN f \in before
                        ELSE f \in Writes(steps[last(f)])},
        created |-> created,
        deleted |-> deleted,
        outcome |-> IF failAt = 0 THEN "returned" ELSE "raised",
        raisedBy |-> failAt,
        error |-> IF failAt = 0 THEN "" ELSE Call(steps[failAt])]

\* the files that are there before a call
FilesBefore == {{}, {OtherFile}, {OtherFile, tmpDarkObjsImg}}

\* a call of an operation: its files before and after
RunOperation(fn, arg, steps, output) ==
    \E debugMode \in BOOLEAN, failAt \in FailPoints(steps), before \in FilesBefore :
    \E st \in {RunSteps(steps, debugMode, failAt, before)} :
        /\ fileRun' = [fn |-> fn, debugMode |-> debugMode, arg |-> arg, steps |-> steps,
                       before |-> before, files |-> st.files, created |-> st.created,
                       deleted |-> st.deleted, outcome |-> st.outcome,
                       raisedBy |-> st.raisedBy, error |-> st.error,
                       outputImage |-> output]
        /\ UNCHANGED <<lutVars, dosVars, dtVars, interpVars, aotVars, utilVars, hdrVars,
                       extVars, blockVars>>

RunFindPerBandDarkTargetsOffsets ==
    \E numBands \in 1..MaxBands :
        RunOperation("findPerBandDarkTargetsOffsets", numBands,
                     findPerBandDarkTargetsOffsets(numBands),
                     OutputImage(findPerBandDarkTargetsOffsets(numBands)))

RunPerformDOSOnSingleBand ==
    \E b \in 1..MaxBands :
        RunOperation("performDOSOnSingleBand", b, performDOSOnSingleBand(b),
                     OutputImage(performDOSOnSingleBand(b)))

RunPerformLocalDOSOnSingleBand ==
    \E b \in 1..MaxBands :
        RunOperation("performLocalDOSOnSingleBand", b, performLocalDOSOnSingleBand(b),
                     OutputImage(performLocalDOSOnSingleBand(b)))

RunFindPerBandLocalDarkTargetsOffsets ==
    \E numBands \in 1..MaxBands :
        RunOperation("findPerBandLocalDarkTargetsOffsets", numBands,
                     findPerBandLocalDarkTargetsOffsets(numBands),
                     OutputImage(findPerBandLocalDarkTargetsOffsets(numBands)))

RunGenerateTopoDirectShadowMask ==
    RunOperation("generateTopoDirectShadowMask", 0, generateTopoDirectShadowMask,
                 OutputImage(generateTopoDirectShadowMask))

RunEstimateSingleAOTFromDOSBandImpl ==
    \E imgBand \in 1..MaxBands :
        RunOperation("estimateSingleAOTFromDOSBandImpl", imgBand,
                     estimateSingleAOTFromDOSBandImpl(imgBand), NoFile)

InitFiles ==
    /\ sensor = CHOOSE st \in SensorStates : st.month = 6
    /\ lutRun = NoRun
    /\ lutPrev = NoRun
    /\ dosCall = NoDOSCall
    /\ DarkTargetIdle
    /\ OthersIdle

NextFiles ==
    \/ RunFindPerBandDarkTargetsOffsets
    \/ RunPerformDOSOnSingleBand
    \/ RunPerformLocalDOSOnSingleBand
    \/ RunFindPerBandLocalDarkTargetsOffsets
    \/ RunGenerateTopoDirectShadowMask
    \/ RunEstimateSingleAOTFromDOSBandImpl

SpecFiles == InitFiles /\ [][NextFiles]_vars

----------------------------------------------------------------------------
(* Claims about the files of the operations                                *)

\* the files the last operation wrote, its output image left out
Intermediates == fileRun.created \ {fileRun.outputImage}

\* C21: for findPerBandDarkTargetsOffsets, findPerBandLocalDarkTargetsOffsets,
\* performLocalDOSOnSingleBand, generateTopoDirectShadowMask and
\* estimateSingleAOTFromDOSBandImpl the intermediate files the operation
\* created are deleted if and only if all its steps completed without
\* raising and debugMode is false: in debug mode nothing is deleted, and
\* when a step raises nothing is deleted and the error of that step is the
\* one that propagates.
C21_TempFileLifecycle ==
    fileRun.fn \in {"findPerBandDarkTargetsOffsets", "findPerBandLocalDarkTargetsOffsets",
                    "performLocalDOSOnSingleBand", "generateTopoDirectShadowMask",
                    "estimateSingleAOTFromDOSBandImpl"} =>
        /\ (fileRun.outcome = "returned" /\ ~fileRun.debugMode)
                => (Intermediates \cap fileRun.files = {} /\ Intermediates \subseteq fileRun.deleted)
        /\ fileRun.debugMode
                => (fileRun.deleted = {} /\ fileRun.created \subseteq fileRun.files)
        /\ fileRun.outcome = "raised"
                => /\ fileRun.deleted = {}
                   /\ fileRun.created \subseteq fileRun.files
                   /\ fileRun.error = Call(fileRun.steps[fileRun.raisedBy])

\* C29: performLocalDOSOnSingleBand uses one band index throughout: the
\* band selected from the block-wise mask, the band of the TOA image the
\* MinTOARefl/MeanTOARefl statistics are taken from and the band of the TOA
\* image the offset is subtracted from are all the band of the caller.
C29_OneBandIndex ==
    (fileRun.fn = "performLocalDOSOnSingleBand" /\ fileRun.outcome = "returned") =>
        \A i \in 1..Len(fileRun.steps) :
            Call(fileRun.steps[i]) \in {"selectImageBands", "populateRATWithStats", "bandMath"}
                => Band(fileRun.steps[i]) = fileRun.arg

\* C30: after performDOSOnSingleBand returns in non-debug mode the only
\* file it created that still exists is the DOS output image it returns,
\* and the files that were there before the call and that it did not write
\* are still there.
C30_OnlyOutputRemains ==
    (/\ fileRun.fn = "performDOSOnSingleBand"
     /\ fileRun.outcome = "returned"
     /\ ~fileRun.debugMode) =>
        /\ fileRun.created \cap fileRun.files = {fileRun.outputImage}
        /\ (fileRun.before \ fileRun.created) \subseteq fileRun.files

=============================================================================
